---- MODULE Spec2Model ----
(***************************************************************************)
(* Catalog state engine of the games browser (initialiseGames and the     *)
(* functions it uses): query-string parsing and serialisation, facet      *)
(* filtering, text search, sorting, page clamping, slicing, pagination    *)
(* links and the event handlers that mutate the view state.               *)
(*                                                                         *)
(* JavaScript strings are modelled as sequences of one-character strings, *)
(* so that substring search, case conversion, trimming, parseInt and      *)
(* String(number) are computed character by character.  A JavaScript      *)
(* object is a record; a property the object does not have is a field     *)
(* that is not in the record's DOMAIN.                                     *)
(***************************************************************************)
EXTENDS Integers, Sequences, FiniteSets, TLC

VARIABLES
    controls,    \* which elements the page has: grid, pagination, search, ...
    history,     \* window.history: its length, and window.location.pathname
    pc,          \* "returned": no grid on the page; "pending": fetch of
                 \* games.json awaited; "ready"; "failed"
    pageSize,    \* const pageSize (data-page-size of the grid)
    games,       \* const games (the fetched catalog), <<>> while pending
    state,       \* const state = parseQuery(): search, sort, page, filters
    url,         \* window.location.search as its list of (key, value) pairs
    grid,        \* the cards of grid.innerHTML, as the sequence of games shown
    pagination,  \* the parts of pagination.innerHTML
    summary,     \* the number shown in [data-results-count], NoSummary before
    searchValue, \* searchInput.value
    sortValue,   \* sortSelect.value
    checked,     \* checked[i]: facetInputs[i].checked
    errors,      \* the errors logged with console.error, in order
    uncaught,    \* the exception that left the last listener, "none" if none
    early,       \* number of user events since the page was opened, while
                 \* the fetch is pending
    call,        \* last direct call of a pure function (specification Fn)
    forum,       \* the forum, login and review pages: the two storages, the
                 \* clock and the last submission
    cta,         \* the game page: the call-to-action overlay and its timer
    tablist      \* the home page: the tabs and panels of a tab list

vars == <<controls, history, pc, pageSize, games, state, url, grid, pagination,
          summary, searchValue, sortValue, checked, errors, uncaught, early,
          call, forum, cta, tablist>>

----------------------------------------------------------------------------
(* Bounds of the model *)

\* number of items of the fetched catalog
CatalogSize == 4
\* largest data-page-size of the grid
MaxPageSize == 3
\* the data-page-size values of the model: one item a page, and the largest
PageSizes == {1, MaxPageSize}
\* largest page number of a ViewState handed directly to updateQuery
MaxPage == 12
\* largest number of user events while one fetch is pending
MaxEarlyEvents == 1

----------------------------------------------------------------------------
(* String literals *)

str_empty == <<>>
str_trending == <<"t", "r", "e", "n", "d", "i", "n", "g">>
str_new == <<"n", "e", "w">>
str_most_rated == <<"m", "o", "s", "t", "-", "r", "a", "t", "e", "d">>
str_alpha == <<"a", "l", "p", "h", "a">>
str_newest == <<"n", "e", "w", "e", "s", "t">>
str_mostRated == <<"m", "o", "s", "t", "R", "a", "t", "e", "d">>
str_alphabetical == <<"a", "l", "p", "h", "a", "b", "e", "t", "i", "c", "a", "l">>
str_proto == <<"_", "_", "p", "r", "o", "t", "o", "_", "_">>
str_constructor == <<"c", "o", "n", "s", "t", "r", "u", "c", "t", "o", "r">>
str_puzzle == <<"p", "u", "z", "z", "l", "e">>
str_logic == <<"l", "o", "g", "i", "c">>
str_dice == <<"d", "i", "c", "e">>
str_cards == <<"c", "a", "r", "d", "s">>
str_easy == <<"e", "a", "s", "y">>
str_hard == <<"h", "a", "r", "d">>
str_en == <<"e", "n">>
str_fr == <<"f", "r">>
str_web == <<"w", "e", "b">>
str_Zeta == <<"Z", "e", "t", "a">>
str_Beta == <<"B", "e", "t", "a">>
str_beta == <<"b", "e", "t", "a">>
str_Ann == <<"A", "n", "n">>
str_Bob == <<"B", "o", "b">>
str_abc == <<"a", "b", "c">>
str_Previous == <<"P", "r", "e", "v", "i", "o", "u", "s">>
str_Next == <<"N", "e", "x", "t">>
str_NaN == <<"N", "a", "N">>

----------------------------------------------------------------------------
(* JavaScript built-ins used by the engine *)

\* The number NaN.  Every other number of the model is an integer far from it;
\* arithmetic and comparisons on a value that may be NaN go through the
\* operators below, which give NaN the behaviour it has in JavaScript.
NaN == -1000000

LowerLetters == <<"a", "b", "c", "d", "e", "f", "g", "h", "i", "j", "k", "l", "m",
                  "n", "o", "p", "q", "r", "s", "t", "u", "v", "w", "x", "y", "z">>
UpperLetters == <<"A", "B", "C", "D", "E", "F", "G", "H", "I", "J", "K", "L", "M",
                  "N", "O", "P", "Q", "R", "S", "T", "U", "V", "W", "X", "Y", "Z">>
Digits == <<"0", "1", "2", "3", "4", "5", "6", "7", "8", "9">>

IndexIn(seq, c) == IF \E i \in 1..Len(seq) : seq[i] = c
                   THEN CHOOSE i \in 1..Len(seq) : seq[i] = c
                   ELSE 0

\* the lower-case letter of each upper-case letter
UpperToLower == [c \in {UpperLetters[i] : i \in 1..Len(UpperLetters)} |->
                    LowerLetters[IndexIn(UpperLetters, c)]]

\* the value of each decimal digit
DigitValue == [c \in {Digits[i] : i \in 1..Len(Digits)} |-> IndexIn(Digits, c) - 1]

\* one character of String.prototype.toLowerCase
LowerChar(c) == IF c \in DOMAIN UpperToLower THEN UpperToLower[c] ELSE c

\* String.prototype.toLowerCase
toLowerCase(s) == [i \in 1..Len(s) |-> LowerChar(s[i])]

\* String.prototype.includes
includes(haystack, needle) ==
    \E i \in 0..(Len(haystack) - Len(needle)) :
        SubSeq(haystack, i + 1, i + Len(needle)) = needle

\* Array.prototype.includes
arrayIncludes(array, value) == \E i \in 1..Len(array) : array[i] = value

IsSpace(c) == c = " "

RECURSIVE trimStart(_)
trimStart(s) == IF Len(s) > 0 /\ IsSpace(Head(s)) THEN trimStart(Tail(s)) ELSE s

RECURSIVE trimEnd(_)
trimEnd(s) == IF Len(s) > 0 /\ IsSpace(s[Len(s)])
              THEN trimEnd(SubSeq(s, 1, Len(s) - 1))
              ELSE s

\* String.prototype.trim
trim(s) == trimEnd(trimStart(s))

\* the value of the longest prefix of decimal digits of s, NaN when it is empty
RECURSIVE parseDigits(_, _, _)
parseDigits(s, seen, acc) ==
    IF Len(s) > 0 /\ Head(s) \in DOMAIN DigitValue
    THEN parseDigits(Tail(s), TRUE, 10 * acc + DigitValue[Head(s)])
    ELSE IF seen THEN acc ELSE NaN

\* parseInt(s, 10): leading white space, an optional sign, decimal digits
parseInt(s) ==
    LET t == trimStart(s)
        signed == Len(t) > 0 /\ Head(t) \in {"+", "-"}
        magnitude == parseDigits(IF signed THEN Tail(t) ELSE t, FALSE, 0)
    IN IF magnitude = NaN THEN NaN
       ELSE IF signed /\ Head(t) = "-" THEN 0 - magnitude
       ELSE magnitude

RECURSIVE numberDigits(_)
numberDigits(n) == IF n < 10 THEN <<Digits[n + 1]>>
                   ELSE numberDigits(n \div 10) \o <<Digits[(n % 10) + 1]>>

\* String(n) of a number
String(n) == IF n = NaN THEN str_NaN
             ELSE IF n < 0 THEN <<"-">> \o numberDigits(0 - n)
             ELSE numberDigits(n)

\* Math.max and Math.min of two numbers
MathMax(a, b) == IF a = NaN \/ b = NaN THEN NaN ELSE IF a >= b THEN a ELSE b
MathMin(a, b) == IF a = NaN \/ b = NaN THEN NaN ELSE IF a <= b THEN a ELSE b

\* a > b and a < b on numbers: false when either is NaN
Greater(a, b) == a # NaN /\ b # NaN /\ a > b
Less(a, b) == a # NaN /\ b # NaN /\ a < b

\* a - b, a + b and a * b on numbers
Minus(a, b) == IF a = NaN \/ b = NaN THEN NaN ELSE a - b
Plus(a, b) == IF a = NaN \/ b = NaN THEN NaN ELSE a + b
Times(a, b) == IF a = NaN \/ b = NaN THEN NaN ELSE a * b

\* Math.ceil(total / size) for an integer total >= 0 and an integer size > 0
CeilDiv(total, size) == (total + size - 1) \div size

\* the number Infinity: greater than every number of the model
Infinity == 1000000

\* Math.ceil(total / size) for a total >= 0 and any size: a division by zero
\* gives Infinity, or NaN for 0 / 0, and a negative size a quotient <= 0
ceilQuotient(total, size) ==
    IF size = NaN THEN NaN
    ELSE IF size = 0 THEN (IF total = 0 THEN NaN ELSE Infinity)
    ELSE IF size < 0 THEN 0 - (total \div (0 - size))
    ELSE CeilDiv(total, size)

\* Array.prototype.slice(start, end): NaN counts as 0, a negative index counts
\* from the end, and indices are clamped to the array
slice(array, start, end) ==
    LET clamp(i) == IF i = NaN THEN 0
                    ELSE IF i < 0 THEN (IF Len(array) + i < 0 THEN 0 ELSE Len(array) + i)
                    ELSE IF i > Len(array) THEN Len(array) ELSE i
    IN SubSeq(array, clamp(start) + 1, clamp(end))

\* Array.prototype.join: an undefined element is joined as the empty string
RECURSIVE join(_, _)
join(array, sep) ==
    IF Len(array) = 0 THEN <<>>
    ELSE IF Len(array) = 1 THEN array[1]
    ELSE array[1] \o sep \o join(Tail(array), sep)

\* the collation rank of a character: letters in alphabetical order without
\* regard to case, after the space, the digits and the hyphen
LetterRank == [c \in {LowerLetters[i] : i \in 1..Len(LowerLetters)} |->
                  20 + IndexIn(LowerLetters, c)]

CharRank(c) ==
    IF LowerChar(c) \in DOMAIN LetterRank THEN LetterRank[LowerChar(c)]
    ELSE IF c \in DOMAIN DigitValue THEN 6 + DigitValue[c]
    ELSE IF c = " " THEN 1 ELSE 2

\* first-difference comparison of two sequences of ranks
compareRanks(a, b) ==
    LET n == IF Len(a) <= Len(b) THEN Len(a) ELSE Len(b)
        differ == {i \in 1..n : a[i] # b[i]}
        first == CHOOSE i \in differ : \A j \in differ : i <= j
    IN IF differ # {}
       THEN (IF a[first] < b[first] THEN -1 ELSE 1)
       ELSE IF Len(a) < Len(b) THEN -1
       ELSE IF Len(a) > Len(b) THEN 1
       ELSE 0

\* the collation ranks of the characters of a string
charRanks(s) == [i \in 1..Len(s) |-> CharRank(s[i])]
\* lower case before upper case, the tie-break of the default collation
CaseRank(c) == IF c \in DOMAIN UpperToLower THEN 1 ELSE 0

caseRanks(s) == [i \in 1..Len(s) |-> CaseRank(s[i])]

\* String.prototype.localeCompare with the default collation: the letters
\* decide without regard to case, then lower case sorts before upper case
localeCompare(a, b) ==
    IF compareRanks(charRanks(a), charRanks(b)) # 0
    THEN compareRanks(charRanks(a), charRanks(b))
    ELSE compareRanks(caseRanks(a), caseRanks(b))

----------------------------------------------------------------------------
(* URLSearchParams: a list of (key, value) pairs *)

Param(key, value) == [k |-> key, v |-> value]

paramsHas(params, key) == \E i \in 1..Len(params) : params[i].k = key

\* URLSearchParams.get(key) || fallback: the first value of the key, the
\* fallback when the key is absent (null) or its first value is empty
getOr(params, key, fallback) ==
    LET first == CHOOSE i \in 1..Len(params) :
                     params[i].k = key /\ \A j \in 1..(i - 1) : params[j].k # key
    IN IF paramsHas(params, key) /\ params[first].v # <<>>
       THEN params[first].v
       ELSE fallback

\* URLSearchParams.getAll(key)
getAll(params, key) ==
    LET hits == SelectSeq(params, LAMBDA p : p.k = key)
    IN [i \in 1..Len(hits) |-> hits[i].v]

\* URLSearchParams.delete(key)
paramsDelete(params, key) == SelectSeq(params, LAMBDA p : p.k # key)

\* URLSearchParams.set(key, value): the first pair of the key takes the value
\* and the others are removed; a new pair is appended when there is none
paramsSet(params, key, value) ==
    LET first == CHOOSE i \in 1..Len(params) :
                     params[i].k = key /\ \A j \in 1..(i - 1) : params[j].k # key
    IN IF paramsHas(params, key)
       THEN SubSeq(params, 1, first - 1) \o <<Param(key, value)>>
            \o paramsDelete(SubSeq(params, first + 1, Len(params)), key)
       ELSE Append(params, Param(key, value))

\* values.forEach(value => params.append(key, value))
appendAll(params, key, values) ==
    params \o [i \in 1..Len(values) |-> Param(key, values[i])]

----------------------------------------------------------------------------
(* parseQuery and updateQuery *)

\* parseQuery, of window.location.search
parseQuery(search) ==
    [search |-> getOr(search, "search", str_empty),
     sort |-> getOr(search, "sort", str_trending),
     page |-> MathMax(1, parseInt(getOr(search, "page", <<"1">>))),
     filters |-> [categories |-> getAll(search, "category"),
                  mechanisms |-> getAll(search, "mechanism"),
                  difficulty |-> getAll(search, "difficulty"),
                  language |-> getAll(search, "language")]]

\* updateQuery with no parameter name for the difficulty facet
updateQuery_noDifficulty(st) ==
    LET p1 == IF st.search # <<>> THEN <<Param("search", st.search)>> ELSE <<>>
        p2 == IF st.sort # <<>> /\ st.sort # str_trending
              THEN paramsSet(p1, "sort", st.sort) ELSE p1
        p3 == appendAll(p2, "category", st.filters.categories)
        p4 == appendAll(p3, "mechanism", st.filters.mechanisms)
        p6 == appendAll(p4, "language", st.filters.language)
    IN IF Greater(st.page, 1) THEN paramsSet(p6, "page", String(st.page)) ELSE p6

\* updateQuery that writes the sort key whatever it is
updateQuery_sortAlways(st) ==
    LET p1 == IF st.search # <<>> THEN <<Param("search", st.search)>> ELSE <<>>
        p2 == IF st.sort # <<>> THEN paramsSet(p1, "sort", st.sort) ELSE p1
        p3 == appendAll(p2, "category", st.filters.categories)
        p4 == appendAll(p3, "mechanism", st.filters.mechanisms)
        p5 == appendAll(p4, "difficulty", st.filters.difficulty)
        p6 == appendAll(p5, "language", st.filters.language)
    IN IF Greater(st.page, 1) THEN paramsSet(p6, "page", String(st.page)) ELSE p6

\* updateQuery: the parameters of the URL handed to history.replaceState
updateQuery(st) ==
    LET p1 == IF st.search # <<>> THEN <<Param("search", st.search)>> ELSE <<>>
        p2 == IF st.sort # <<>> /\ st.sort # str_trending
              THEN paramsSet(p1, "sort", st.sort) ELSE p1
        p3 == appendAll(p2, "category", st.filters.categories)
        p4 == appendAll(p3, "mechanism", st.filters.mechanisms)
        p5 == appendAll(p4, "difficulty", st.filters.difficulty)
        p6 == appendAll(p5, "language", st.filters.language)
    IN IF Greater(st.page, 1) THEN paramsSet(p6, "page", String(st.page)) ELSE p6

----------------------------------------------------------------------------
(* The catalog: /assets/data/games.json *)

\* game[name], undefined being replaced by the given value
prop(game, name, undefined) == IF name \in DOMAIN game THEN game[name] ELSE undefined

\* The items of the modelled games.json.  created_at is the time value of
\* new Date(created_at); the three trending signals are in tenths.
AllGames == <<
    [slug |-> <<"g", "1">>, title |-> str_Zeta, summary |-> str_dice \o <<" ">> \o str_Bob,
     author |-> str_Ann, categories |-> <<str_logic>>, mechanisms |-> <<str_dice>>,
     difficulty |-> str_easy, languages |-> <<str_en>>, created_at |-> 3, rating |-> 2,
     pv7_norm |-> 5, guide_clicks7_norm |-> 0, recency |-> 0],
    [slug |-> <<"g", "2">>, title |-> str_alpha, author |-> str_Bob,
     categories |-> <<str_puzzle>>, difficulty |-> str_hard,
     languages |-> <<str_en, str_fr>>, created_at |-> 1,
     pv7_norm |-> 9, guide_clicks7_norm |-> 2],
    [slug |-> <<"g", "3">>, title |-> str_Beta, summary |-> str_logic,
     author |-> str_Ann, categories |-> <<str_logic, str_puzzle>>,
     mechanisms |-> <<str_dice, str_cards>>, created_at |-> 4, rating |-> 5,
     pv7_norm |-> 1, guide_clicks7_norm |-> 1, recency |-> 1],
    [slug |-> <<"g", "4">>, title |-> str_beta, summary |-> str_empty,
     author |-> str_abc, mechanisms |-> <<str_cards>>, difficulty |-> str_easy,
     languages |-> <<str_fr>>, created_at |-> 2, rating |-> 4,
     pv7_norm |-> 5, recency |-> 0],
    [slug |-> <<"g", "5">>, title |-> str_dice, summary |-> str_puzzle,
     author |-> str_Bob, categories |-> <<str_logic>>, mechanisms |-> <<str_dice>>,
     difficulty |-> str_hard, languages |-> <<str_en>>, created_at |-> 5, rating |-> 1,
     pv7_norm |-> 2, guide_clicks7_norm |-> 5, recency |-> 9],
    [slug |-> <<"g", "6">>, title |-> str_Ann, summary |-> str_cards,
     author |-> str_Ann, categories |-> <<str_puzzle>>, mechanisms |-> <<str_cards>>,
     difficulty |-> str_easy, languages |-> <<str_fr>>, created_at |-> 6, rating |-> 3,
     pv7_norm |-> 0, guide_clicks7_norm |-> 0, recency |-> 3] >>

\* the catalogs a fetch may deliver: an empty one and the first CatalogSize items
Catalogs == {<<>>, SubSeq(AllGames, 1, CatalogSize)}

\* the page size of a grid without a data-page-size attribute
DefaultPageSize == 24

\* A games.json of 30 items of which every third one, 10 in all, has the
\* mechanism dice; the trending signals differ from item to item, so that
\* the order of the catalog is not the order of the trending scores.
BigCatalog ==
    [i \in 1..30 |->
        [slug |-> <<"b">> \o String(i),
         title |-> <<"G">> \o String(i),
         summary |-> str_empty,
         author |-> IF i % 2 = 0 THEN str_Ann ELSE str_Bob,
         categories |-> IF i % 2 = 0 THEN <<str_logic>> ELSE <<str_puzzle>>,
         mechanisms |-> IF i % 3 # 0 THEN <<str_cards>>
                        ELSE IF i % 2 = 0 THEN <<str_dice>> ELSE <<str_cards, str_dice>>,
         difficulty |-> str_easy,
         languages |-> <<str_en>>,
         created_at |-> i,
         rating |-> i % 6,
         pv7_norm |-> (7 * i) % 10,
         guide_clicks7_norm |-> i % 4,
         recency |-> i % 5]]

\* the catalogs a fetch may deliver to a page of the given page size: the
\* catalog of 30 items goes with the default page size, the small ones with
\* the small page sizes
CatalogsFor(size) == IF size = DefaultPageSize THEN {BigCatalog} ELSE Catalogs

----------------------------------------------------------------------------
(* Sorting *)

\* computeTrendingScore, times 10
computeTrendingScore(game) ==
    7 * prop(game, "pv7_norm", 0) + 2 * prop(game, "guide_clicks7_norm", 0)
    + 1 * prop(game, "recency", 0)

\* the own keys of sorters
SorterKeys == {str_trending, str_new, str_most_rated, str_alpha}

\* sorters[key] || sorters.trending, as the key whose value is taken.  An own
\* key names its comparator.  "__proto__" finds Object.prototype, which is no
\* function; "constructor" finds the inherited function Object; any other key
\* of the model finds nothing and the trending comparator is taken.
sorterFor(key) ==
    IF key \in SorterKeys \cup {str_proto, str_constructor} THEN key
    ELSE str_trending

\* filtered.sort(sorter) throws a TypeError when sorter is not a function
sortThrows(sorter) == sorter = str_proto

\* compare with the operands of the most-rated comparator exchanged
compare_ratingAscending(sorter, a, b) ==
    IF sorter = str_trending THEN computeTrendingScore(b) - computeTrendingScore(a)
    ELSE IF sorter = str_new THEN b.created_at - a.created_at
    ELSE IF sorter = str_most_rated THEN prop(a, "rating", 0) - prop(b, "rating", 0)
    ELSE IF sorter = str_alpha THEN localeCompare(a.title, b.title)
    ELSE 0

\* the number the sort makes of sorter(a, b)
compare(sorter, a, b) ==
    IF sorter = str_trending THEN computeTrendingScore(b) - computeTrendingScore(a)
    ELSE IF sorter = str_new THEN b.created_at - a.created_at
    ELSE IF sorter = str_most_rated THEN prop(b, "rating", 0) - prop(a, "rating", 0)
    ELSE IF sorter = str_alpha THEN localeCompare(a.title, b.title)
    ELSE 0  \* Object(a, b) is a, whose number is NaN, which the sort takes as 0

\* one step of the sort: x is put before the first item that the comparator
\* places after it, behind every item it is equal to
insertSorted(sorted, x, sorter) ==
    LET after == {i \in 1..Len(sorted) : compare(sorter, sorted[i], x) > 0}
        at == IF after = {} THEN Len(sorted) + 1
              ELSE CHOOSE i \in after : \A j \in after : i <= j
    IN SubSeq(sorted, 1, at - 1) \o <<x>> \o SubSeq(sorted, at, Len(sorted))

\* Array.prototype.sort(sorter): a stable sort
RECURSIVE sort(_, _)
sort(array, sorter) ==
    IF Len(array) <= 1 THEN array
    ELSE CHOOSE result \in
            {insertSorted(sorted, array[Len(array)], sorter) :
                sorted \in {sort(SubSeq(array, 1, Len(array) - 1), sorter)}} : TRUE

----------------------------------------------------------------------------
(* Filtering and searching *)

\* filters.<facet>.some(value => game.<field>?.includes(value))
someIncluded(selected, game, field) ==
    \E i \in 1..Len(selected) :
        field \in DOMAIN game /\ arrayIncludes(game[field], selected[i])

\* matchesFilters with every() in place of some() for the categories
matchesFilters_everyCategory(game, filters) ==
    /\ \A i \in 1..Len(filters.categories) :
           "categories" \in DOMAIN game
           /\ arrayIncludes(game.categories, filters.categories[i])
    /\ (Len(filters.mechanisms) = 0 \/ someIncluded(filters.mechanisms, game, "mechanisms"))
    /\ (Len(filters.difficulty) = 0
        \/ ("difficulty" \in DOMAIN game /\ arrayIncludes(filters.difficulty, game.difficulty)))
    /\ (Len(filters.language) = 0 \/ someIncluded(filters.language, game, "languages"))

\* matchesFilters without the length test of the mechanisms
matchesFilters_noLengthTest(game, filters) ==
    /\ (Len(filters.categories) = 0 \/ someIncluded(filters.categories, game, "categories"))
    /\ someIncluded(filters.mechanisms, game, "mechanisms")
    /\ (Len(filters.difficulty) = 0
        \/ ("difficulty" \in DOMAIN game /\ arrayIncludes(filters.difficulty, game.difficulty)))
    /\ (Len(filters.language) = 0 \/ someIncluded(filters.language, game, "languages"))

\* matchesFilters
matchesFilters(game, filters) ==
    IF Len(filters.categories) # 0 /\ ~someIncluded(filters.categories, game, "categories")
    THEN FALSE
    ELSE IF Len(filters.mechanisms) # 0 /\ ~someIncluded(filters.mechanisms, game, "mechanisms")
    THEN FALSE
    ELSE IF Len(filters.difficulty) # 0
            /\ ~("difficulty" \in DOMAIN game
                 /\ arrayIncludes(filters.difficulty, game.difficulty))
    THEN FALSE
    ELSE IF Len(filters.language) # 0 /\ ~someIncluded(filters.language, game, "languages")
    THEN FALSE
    ELSE TRUE

\* the haystack of matchesSearch before it is lower-cased
haystackOf(game) ==
    join(<<prop(game, "title", str_empty), prop(game, "summary", str_empty),
           prop(game, "author", str_empty)>>
         \o prop(game, "categories", <<>>) \o prop(game, "mechanisms", <<>>),
         <<" ">>)

\* matchesSearch without the lower-casing of the query
matchesSearch_queryAsTyped(game, query) ==
    IF query = <<>> THEN TRUE
    ELSE \E haystack \in {toLowerCase(haystackOf(game))} : includes(haystack, query)

\* matchesSearch
matchesSearch(game, query) ==
    IF query = <<>> THEN TRUE
    ELSE \E haystack \in {toLowerCase(haystackOf(game))}, needle \in {toLowerCase(query)} :
            includes(haystack, needle)

----------------------------------------------------------------------------
(* Rendering *)

\* renderPagination with a Next link on the last page too
renderPagination_nextOnLastPage(search, st, totalItems, size) ==
    LET totalPages == MathMax(1, ceilQuotient(totalItems, size))
        appendLink(page, label, isCurrent) ==
            IF isCurrent THEN [tag |-> "span", label |-> label]
            ELSE [tag |-> "a", label |-> label,
                  href |-> IF page = 1 THEN paramsDelete(search, "page")
                           ELSE paramsSet(search, "page", String(page))]
        previous == IF Greater(st.page, 1)
                    THEN <<appendLink(st.page - 1, str_Previous, FALSE)>> ELSE <<>>
        pages == [page \in 1..(IF totalPages = Infinity THEN 0 ELSE totalPages) |->
                     appendLink(page, String(page), page = st.page)]
        next == IF st.page # NaN /\ st.page <= totalPages
                THEN <<appendLink(st.page + 1, str_Next, FALSE)>> ELSE <<>>
    IN IF totalPages <= 1 THEN <<>> ELSE previous \o pages \o next

\* renderPagination whose links start from an empty query string
renderPagination_pageOnly(search, st, totalItems, size) ==
    LET totalPages == MathMax(1, ceilQuotient(totalItems, size))
        appendLink(page, label, isCurrent) ==
            IF isCurrent THEN [tag |-> "span", label |-> label]
            ELSE [tag |-> "a", label |-> label,
                  href |-> IF page = 1 THEN <<>>
                           ELSE <<Param("page", String(page))>>]
        previous == IF Greater(st.page, 1)
                    THEN <<appendLink(st.page - 1, str_Previous, FALSE)>> ELSE <<>>
        pages == [page \in 1..(IF totalPages = Infinity THEN 0 ELSE totalPages) |->
                     appendLink(page, String(page), page = st.page)]
        next == IF Less(st.page, totalPages)
                THEN <<appendLink(st.page + 1, str_Next, FALSE)>> ELSE <<>>
    IN IF totalPages <= 1 THEN <<>> ELSE previous \o pages \o next

\* renderPagination: the parts joined into container.innerHTML, each the span
\* of the current page or a link with the parameters of its href; search is
\* window.location.search, which appendLink reads.  With Infinity pages the
\* loop over the pages has no end and no parts are ever joined.
renderPagination(search, st, totalItems, size) ==
    LET totalPages == MathMax(1, ceilQuotient(totalItems, size))
        appendLink(page, label, isCurrent) ==
            IF isCurrent THEN [tag |-> "span", label |-> label]
            ELSE [tag |-> "a", label |-> label,
                  href |-> IF page = 1 THEN paramsDelete(search, "page")
                           ELSE paramsSet(search, "page", String(page))]
        previous == IF Greater(st.page, 1)
                    THEN <<appendLink(st.page - 1, str_Previous, FALSE)>> ELSE <<>>
        pages == [page \in 1..(IF totalPages = Infinity THEN 0 ELSE totalPages) |->
                     appendLink(page, String(page), page = st.page)]
        next == IF Less(st.page, totalPages)
                THEN <<appendLink(st.page + 1, str_Next, FALSE)>> ELSE <<>>
    IN IF totalPages <= 1 THEN <<>> ELSE previous \o pages \o next

\* the two filter passes of render
renderFiltered(catalog, st) ==
    SelectSeq(SelectSeq(catalog, LAMBDA game : matchesFilters(game, st.filters)),
              LAMBDA game : matchesSearch(game, st.search))

\* render without filtered.sort(sorter)
renderSorted_unsorted(catalog, st) == renderFiltered(catalog, st)

\* the sorted items of render: filtered, after filtered.sort(sorter)
renderSorted(catalog, st) ==
    CHOOSE sorted \in {sort(filtered, sorterFor(st.sort)) :
                          filtered \in {renderFiltered(catalog, st)}} : TRUE

\* render from the sorted items on, with updateQuery called before the page
\* is clamped
renderPage_queryBeforeClamp(filtered, st, size) ==
    LET total == Len(filtered)
        totalPages == MathMax(1, ceilQuotient(total, size))
        clamped == [st EXCEPT !.page = MathMin(st.page, totalPages)]
        start == Times(Minus(clamped.page, 1), size)
        pageItems == slice(filtered, start, Plus(start, size))
    IN CHOOSE r \in {[state |-> clamped,
                      grid |-> pageItems,
                      url |-> search,
                      pagination |-> renderPagination(search, clamped, total, size),
                      summary |-> total,
                      totalPages |-> totalPages] : search \in {updateQuery(st)}} : TRUE

\* render from the sorted items on: the state with its page clamped and what
\* is written to the grid, the address bar, the pagination container and the
\* results count
renderPage(filtered, st, size) ==
    LET total == Len(filtered)
        totalPages == MathMax(1, ceilQuotient(total, size))
        clamped == [st EXCEPT !.page = MathMin(st.page, totalPages)]
        start == Times(Minus(clamped.page, 1), size)
        pageItems == slice(filtered, start, Plus(start, size))
    IN CHOOSE r \in {[state |-> clamped,
                      grid |-> pageItems,
                      url |-> search,
                      pagination |-> renderPagination(search, clamped, total, size),
                      summary |-> total,
                      totalPages |-> totalPages] : search \in {updateQuery(clamped)}} : TRUE

\* render when the sort does not throw
render(catalog, st, size) ==
    CHOOSE r \in {renderPage(filtered, st, size) :
                     filtered \in {renderSorted(catalog, st)}} : TRUE

\* the array games after a render with the sort of the state st: the items
\* are sorted in the array games itself
renderCatalog_sortedInPlace(catalog, st) == sort(catalog, sorterFor(st.sort))

\* the array games after a render with the sort of the state st: games.filter
\* gives a new array, and that array is the one filtered.sort sorts in place
renderCatalog(catalog, st) == catalog

\* window.history after history.pushState({}, '', newUrl)
replaceState_pushState(h, pathname) ==
    [length |-> h.length + 1, pathname |-> pathname]

\* window.history after history.replaceState({}, '', newUrl), newUrl being
\* the given path followed by the query string
replaceState(h, pathname) ==
    [length |-> h.length, pathname |-> pathname]

\* the parts of the pagination container with the href of each link in full:
\* window.location.pathname followed by the query string
anchored(parts, pathname) ==
    [i \in 1..Len(parts) |->
        IF parts[i].tag = "a"
        THEN [parts[i] EXCEPT !.href = [pathname |-> pathname, search |-> @]]
        ELSE parts[i]]

\* a render whose renderPagination does not test its container: on a page
\* without one, the grid and the address bar are written and the assignment
\* to container.innerHTML throws
Written_noContainerTest(r, catalog) ==
    /\ state' = r.state
    /\ games' = renderCatalog(catalog, r.state)
    /\ grid' = r.grid
    /\ url' = r.url
    /\ history' = replaceState(history, history.pathname)
    /\ pagination' = IF controls.pagination
                     THEN anchored(r.pagination, history.pathname) ELSE pagination
    /\ summary' = IF controls.summary /\ controls.pagination THEN r.summary ELSE summary
    /\ uncaught' = IF controls.pagination THEN "none" ELSE "TypeError"

\* what a render that has run to its end has written, r being its result and
\* catalog the array games: the pagination container and the results count
\* are written when the page has them, and no exception is thrown
Written(r, catalog) ==
    /\ state' = r.state
    /\ games' = renderCatalog(catalog, r.state)
    /\ grid' = r.grid
    /\ url' = r.url
    /\ history' = replaceState(history, history.pathname)
    /\ pagination' = IF controls.pagination
                     THEN anchored(r.pagination, history.pathname) ELSE pagination
    /\ summary' = IF controls.summary THEN r.summary ELSE summary
    /\ uncaught' = "none"

\* render() when the sort does not throw: it returns and the page goes on as
\* `after', unless the page has a pagination container and Infinity pages:
\* the grid and the address bar are written, then the loop of renderPagination
\* over the pages never ends, and nothing more happens on the page
Rendered(r, catalog, after) ==
    IF controls.pagination /\ r.totalPages = Infinity
    THEN /\ pc' = "hung"
         /\ state' = r.state
         /\ games' = renderCatalog(catalog, r.state)
         /\ grid' = r.grid
         /\ url' = r.url
         /\ history' = replaceState(history, history.pathname)
         /\ UNCHANGED <<pagination, summary, uncaught>>
    ELSE /\ Written(r, catalog)
         /\ pc' = after

\* render() called from a listener with the state as the listener left it: a
\* throwing sort leaves the page as it is and the exception leaves the listener
Render(st) ==
    IF sortThrows(sorterFor(st.sort))
    THEN /\ state' = st
         /\ uncaught' = "TypeError"
         /\ UNCHANGED <<pc, games, grid, url, history, pagination, summary>>
    ELSE \E r \in {render(games, st, pageSize)} : Rendered(r, games, pc)

----------------------------------------------------------------------------
(* The page: its controls and the query strings it is opened with *)

\* the [data-facet] inputs of the page: data-facet and value
FacetInputs == <<
    [facet |-> "categories", value |-> str_logic],
    [facet |-> "categories", value |-> str_puzzle],
    [facet |-> "mechanisms", value |-> str_dice],
    [facet |-> "platform", value |-> str_web] >>

\* the values of the options of the sort selector
SortOptions == {str_trending, str_new, str_most_rated, str_alpha}

\* texts typed into the search box
SearchInputs == {str_empty, <<" ", "D", "i", "c", "e", " ">>}

\* the query strings the page is opened with
InitialQueries == {
    <<>>,
    <<Param("page", str_abc)>>,
    <<Param("page", str_empty)>>,
    <<Param("page", <<"0">>)>>,
    <<Param("page", <<"-", "3">>)>>,
    <<Param("page", <<"5">>)>>,
    <<Param("page", <<"2", "x">>), Param("utm", str_web)>>,
    <<Param("search", str_puzzle), Param("sort", str_newest),
      Param("category", str_logic), Param("page", <<"2">>)>>,
    <<Param("sort", str_newest)>>,
    <<Param("sort", str_new)>>,
    <<Param("sort", str_most_rated), Param("page", <<"2">>)>>,
    <<Param("sort", str_alpha)>>,
    <<Param("sort", str_mostRated)>>,
    <<Param("sort", str_alphabetical)>>,
    <<Param("sort", str_trending), Param("page", <<"1">>)>>,
    <<Param("sort", str_proto)>>,
    <<Param("sort", str_constructor)>>,
    <<Param("mechanism", str_dice), Param("difficulty", str_easy)>>,
    <<Param("category", str_puzzle), Param("category", str_logic),
      Param("language", str_en)>>,
    <<Param("search", <<"D", "I", "C", "E">>), Param("page", <<"2">>)>> }

\* the checked state the inputs have when the page has loaded
InitialChecked == {[i \in 1..Len(FacetInputs) |-> FALSE],
                   [i \in 1..Len(FacetInputs) |-> i = 2]}

\* no results count has been written
NoSummary == -1

\* no pure function has been called
NoCall == [op |-> "none"]

\* the script of a page that is not the page of the run: it is not loaded
NotLoaded == [loaded |-> FALSE]

\* the elements initialiseGames looks for: all of them are on the page
AllControls == [grid |-> TRUE, pagination |-> TRUE, search |-> TRUE,
                sort |-> TRUE, facets |-> TRUE, summary |-> TRUE]

\* the pages of the model: each element is on the page or is not
ControlSets == [grid : BOOLEAN, pagination : BOOLEAN, search : BOOLEAN,
                sort : BOOLEAN, facets : BOOLEAN, summary : BOOLEAN]

\* the query strings a page that lacks an element is opened with
SparseQueries == {<<>>, <<Param("category", str_logic), Param("page", <<"2">>)>>}

\* window.history when the page is opened
Histories == {[length |-> 1, pathname |-> "/games/"],
              [length |-> 3, pathname |-> "/"]}

\* no view state: parseQuery has not been called
NoState == [parsed |-> FALSE]

----------------------------------------------------------------------------
(* initialiseGames and the listeners it registers *)

\* initialiseGames up to its await: the page has loaded with the query string
\* q; without a grid initialiseGames returns at once, otherwise the state is
\* parsed from q and the fetch of games.json is pending
Loaded(present, q, size, boxes) ==
    /\ controls = present
    /\ pc = IF present.grid THEN "pending" ELSE "returned"
    /\ pageSize = size
    /\ games = <<>>
    /\ url = q
    /\ state = IF present.grid THEN parseQuery(q) ELSE NoState
    /\ grid = <<>>
    /\ pagination = <<>>
    /\ summary = NoSummary
    /\ searchValue = str_empty
    /\ sortValue = str_trending
    /\ checked = boxes
    /\ errors = <<>>
    /\ uncaught = "none"
    /\ early = 0

\* the page is opened: a page with all its elements with any of the initial
\* query strings and the first of Histories, a page that lacks an element
\* with one of SparseQueries and any of Histories
Init ==
    /\ \/ \E q \in InitialQueries, size \in PageSizes, boxes \in InitialChecked :
              Loaded(AllControls, q, size, boxes)
       \/ \E present \in ControlSets \ {AllControls}, q \in SparseQueries :
              Loaded(present, q, 1,
                     IF present.facets THEN [i \in 1..Len(FacetInputs) |-> FALSE]
                     ELSE <<>>)
    /\ history \in {h \in Histories : h.length = 1 \/ controls # AllControls}
    /\ call = NoCall
    /\ forum = NotLoaded /\ cta = NotLoaded /\ tablist = NotLoaded

\* applyStateToControls: the checked state of the facet inputs
applyStateToControls(st, boxes) ==
    [i \in 1..Len(boxes) |->
        IF /\ FacetInputs[i].facet \in {"categories", "mechanisms", "difficulty", "language"}
           /\ arrayIncludes(st.filters[FacetInputs[i].facet], FacetInputs[i].value)
        THEN TRUE
        ELSE boxes[i]]

\* sortSelect.value = value: the option with that value is selected, none when
\* no option has it and the value then reads as the empty string
selectValue(value) == IF value \in SortOptions THEN value ELSE str_empty

\* the state as the input listener of the search box leaves it for render()
searchListener(st, value) == [st EXCEPT !.search = trim(value), !.page = 1]

\* the state as the change listener of the sort selector leaves it for render()
sortListener(st, value) == [st EXCEPT !.sort = value, !.page = 1]

\* the filters after the change listener of a facet input whose facet is a
\* key of state.filters
facetChanged(filters, facet, value, isChecked) ==
    LET target == filters[facet]
    IN IF isChecked
       THEN (IF ~arrayIncludes(target, value)
             THEN [filters EXCEPT ![facet] = Append(target, value)]
             ELSE filters)
       ELSE [filters EXCEPT ![facet] = SelectSeq(target, LAMBDA item : item # value)]

\* the property names state.filters inherits from Object.prototype: for these
\* state.filters[facet] is an object that is not an array
InheritedKeys == {"constructor", "__proto__", "toString", "valueOf", "hasOwnProperty"}

\* the change listener of a facet input, keeping the page of the view
facetListener_keepsPage(st, facet, value, isChecked) ==
    IF facet \in DOMAIN st.filters
    THEN [state |-> [st EXCEPT !.filters = facetChanged(st.filters, facet, value, isChecked)],
          renders |-> TRUE, thrown |-> "none"]
    ELSE IF facet \in InheritedKeys
    THEN [state |-> st, renders |-> FALSE, thrown |-> "TypeError"]
    ELSE [state |-> st, renders |-> FALSE, thrown |-> "none"]

\* the change listener of a facet input: the state it leaves, whether it
\* calls render() and what it throws.  A facet that is no key of
\* state.filters has an undefined target and the listener returns; for an
\* inherited name the target is an object without includes and filter, and
\* the call of either throws before anything is changed.
facetListener(st, facet, value, isChecked) ==
    IF facet \in DOMAIN st.filters
    THEN [state |-> [st EXCEPT !.filters = facetChanged(st.filters, facet, value, isChecked),
                               !.page = 1],
          renders |-> TRUE, thrown |-> "none"]
    ELSE IF facet \in InheritedKeys
    THEN [state |-> st, renders |-> FALSE, thrown |-> "TypeError"]
    ELSE [state |-> st, renders |-> FALSE, thrown |-> "none"]

\* the state as the click listener of the pagination container leaves it for
\* render(), for a click on a link whose href has the parameters `search'
paginationListener(st, search) ==
    [st EXCEPT !.page = MathMax(1, parseInt(getOr(search, "page", <<"1">>)))]

\* the listeners are registered, which initialiseGames does before the fetch
listening_beforeFetch == pc \in {"pending", "ready"}

\* the listeners are registered, which initialiseGames does after the fetch
\* has resolved and the first render has returned
listening == pc = "ready"

\* the fetch resolves with a catalog: the controls are set from the state,
\* the first render runs and the listeners are registered; a TypeError of
\* the sort is caught and logged, and no listener is registered
FetchResolve ==
    /\ pc = "pending"
    /\ \E catalog \in CatalogsFor(pageSize) :
        /\ searchValue' = IF controls.search THEN state.search ELSE searchValue
        /\ sortValue' = IF controls.sort THEN selectValue(state.sort) ELSE sortValue
        /\ checked' = applyStateToControls(state, checked)
        /\ IF sortThrows(sorterFor(state.sort))
           THEN /\ pc' = "failed"
                /\ games' = catalog
                /\ errors' = Append(errors, "TypeError")
                /\ UNCHANGED <<state, grid, url, history, pagination, summary,
                               uncaught>>
           ELSE /\ \E r \in {render(catalog, state, pageSize)} :
                       Rendered(r, catalog, "ready")
                /\ UNCHANGED errors
    /\ early' = 0
    /\ UNCHANGED <<controls, pageSize, call,
                   forum, cta, tablist>>

\* the fetch or res.json() rejects: the catch logs the error, and rendering
\* an empty catalog instead
FetchReject_rendersNothing ==
    /\ pc = "pending"
    /\ pc' = "failed"
    /\ errors' = Append(errors, "fetch")
    /\ \E r \in {render(<<>>, state, pageSize)} : Written(r, <<>>)
    /\ early' = 0
    /\ UNCHANGED <<controls, pageSize, searchValue, sortValue, checked, call,
                   forum, cta, tablist>>

\* the fetch or res.json() rejects: the catch logs the error
FetchReject ==
    /\ pc = "pending"
    /\ pc' = "failed"
    /\ errors' = Append(errors, "fetch")
    /\ early' = 0
    /\ UNCHANGED <<controls, history, pageSize, games, state, url, grid,
                   pagination, summary, searchValue, sortValue, checked,
                   uncaught, call,
                   forum, cta, tablist>>

\* a user event on a control of the page, while the fetch is pending or after
\* it has resolved
UserEvent ==
    /\ pc \in {"pending", "ready"}
    /\ pc = "pending" => early < MaxEarlyEvents
    /\ early' = IF pc = "pending" THEN early + 1 ELSE early

\* the user types into the search box; its input listener runs if registered
SearchInput ==
    /\ UserEvent
    /\ controls.search
    /\ \E value \in SearchInputs :
        /\ searchValue' = value
        /\ IF listening
           THEN Render(searchListener(state, value))
           ELSE UNCHANGED <<pc, state, games, grid, url, history, pagination,
                            summary, uncaught>>
    /\ UNCHANGED <<controls, pageSize, sortValue, checked, errors, call,
                   forum, cta, tablist>>

\* the user picks an option of the sort selector; its change listener runs if
\* registered
SortChange ==
    /\ UserEvent
    /\ controls.sort
    /\ \E value \in SortOptions :
        /\ sortValue' = value
        /\ IF listening
           THEN Render(sortListener(state, value))
           ELSE UNCHANGED <<pc, state, games, grid, url, history, pagination,
                            summary, uncaught>>
    /\ UNCHANGED <<controls, pageSize, searchValue, checked, errors, call,
                   forum, cta, tablist>>


\* the user toggles a facet input; its change listener runs if registered
FacetChange ==
    /\ UserEvent
    /\ \E i \in 1..Len(checked) :
        LET input == FacetInputs[i]
            isChecked == ~checked[i]
        IN /\ checked' = [checked EXCEPT ![i] = isChecked]
           /\ IF ~listening
              THEN UNCHANGED <<pc, state, games, grid, url, history, pagination,
                               summary, uncaught>>
              ELSE \E l \in {facetListener(state, input.facet, input.value, isChecked)} :
                     IF l.renders
                     THEN Render(l.state)
                     ELSE /\ uncaught' = l.thrown
                          /\ UNCHANGED <<pc, state, games, grid, url, history,
                                         pagination, summary>>
    /\ UNCHANGED <<controls, pageSize, searchValue, sortValue, errors, call,
                   forum, cta, tablist>>

\* the user clicks a link of the pagination container; the click listener of
\* the container runs if registered
PaginationClick ==
    /\ UserEvent
    /\ controls.pagination
    /\ \E i \in 1..Len(pagination) :
        /\ pagination[i].tag = "a"
        /\ IF listening
           THEN Render(paginationListener(state, pagination[i].href.search))
           ELSE UNCHANGED <<pc, state, games, grid, url, history, pagination,
                            summary, uncaught>>
    /\ UNCHANGED <<controls, pageSize, searchValue, sortValue, checked,
                   errors, call,
                   forum, cta, tablist>>

\* the page is loaded again from the address bar (a reload or a shared link);
\* on a page loaded again the user waits for the catalog
Reload ==
    /\ pc \in {"ready", "failed"}
    /\ pc' = "pending"
    /\ games' = <<>>
    /\ state' = parseQuery(url)
    /\ grid' = <<>>
    /\ pagination' = <<>>
    /\ summary' = NoSummary
    /\ searchValue' = str_empty
    /\ sortValue' = str_trending
    /\ checked' \in {boxes \in InitialChecked : Len(checked) > 0} \cup
                    {boxes \in {<<>>} : Len(checked) = 0}
    /\ errors' = <<>>
    /\ uncaught' = "none"
    /\ early' = MaxEarlyEvents
    /\ UNCHANGED <<controls, history, pageSize, url, call,
                   forum, cta, tablist>>

Next ==
    \/ FetchResolve
    \/ FetchReject
    \/ SearchInput
    \/ SortChange
    \/ FacetChange
    \/ PaginationClick
    \/ Reload

Spec == Init /\ [][Next]_vars

----------------------------------------------------------------------------
(* The page with the default page size and the catalog of 30 items:
   specification SpecEndToEnd *)

\* the query strings the page of the end-to-end scenario is opened with
EndToEndQueries == {
    <<>>,
    <<Param("mechanism", str_dice)>>,
    <<Param("mechanism", str_dice), Param("page", <<"3">>)>>,
    <<Param("page", <<"2">>)>> }

\* the page is opened with all its elements and no data-page-size attribute
InitEndToEnd ==
    /\ \E q \in EndToEndQueries, boxes \in InitialChecked :
           Loaded(AllControls, q, DefaultPageSize, boxes)
    /\ history = [length |-> 1, pathname |-> "/games/"]
    /\ call = NoCall
    /\ forum = NotLoaded /\ cta = NotLoaded /\ tablist = NotLoaded

SpecEndToEnd == InitEndToEnd /\ [][Next]_vars

----------------------------------------------------------------------------
(* The page with any data-page-size attribute: specification SpecPageSize *)

\* null: what getAttribute returns for an absent attribute and what a form
\* returns for an absent field
null == <<"null">>

\* the data-page-size attributes of the grid: absent, empty, non-numeric,
\* zero, negative and positive
PageSizeAttributes == {null, str_empty, str_abc, <<"0">>, <<"-", "2">>, <<"2">>}

\* parseInt(grid.getAttribute('data-page-size') || '24', 10)
pageSizeOf(attribute) ==
    parseInt(IF attribute = null \/ attribute = str_empty THEN <<"2", "4">> ELSE attribute)

\* the page is opened with all its elements and any of the attributes
InitPageSize ==
    /\ \E attribute \in PageSizeAttributes,
          q \in {<<>>, <<Param("page", <<"2">>)>>} :
           Loaded(AllControls, q, pageSizeOf(attribute),
                  [i \in 1..Len(FacetInputs) |-> FALSE])
    /\ history = [length |-> 1, pathname |-> "/games/"]
    /\ call = NoCall
    /\ forum = NotLoaded /\ cta = NotLoaded /\ tablist = NotLoaded

SpecPageSize == InitPageSize /\ [][Next]_vars

----------------------------------------------------------------------------
(* Direct calls of the pure functions: specification SpecFn *)

\* the games handed to matchesFilters and matchesSearch
FnGames == {AllGames[i] : i \in 1..Len(AllGames)}

\* the selections handed to matchesFilters
FnFilters ==
    [categories : {<<>>, <<str_logic>>, <<str_puzzle>>, <<str_puzzle, str_logic>>, <<str_web>>},
     mechanisms : {<<>>, <<str_dice>>, <<str_cards, str_dice>>},
     difficulty : {<<>>, <<str_easy>>, <<str_hard, str_easy>>},
     language : {<<>>, <<str_fr>>, <<str_en, str_web>>}]

\* the queries handed to matchesSearch
FnQueries == {str_empty, <<"D", "I", "C", "E">>, <<"a", "d">>, <<"a", " ", "d">>,
              <<"n", " ", "L", "o", "g">>, <<"z", "z">>, <<" ">>, str_Ann, str_cards}

\* the view states handed to updateQuery
FnStates ==
    [search : {str_empty, str_puzzle, <<" ", "D", "i", "c", "e">>},
     sort : {str_trending, str_newest, str_new, str_web},
     page : 1..MaxPage,
     filters : [categories : {<<>>, <<str_logic>>, <<str_puzzle, str_logic>>},
                mechanisms : {<<>>, <<str_dice>>},
                difficulty : {<<>>, <<str_easy, str_empty>>},
                language : {<<>>, <<str_fr, str_fr>>}]]

\* view states handed to updateQuery that no query string parses to: an
\* empty sort key, a page that is not a number
FnOddStates ==
    [search : {str_empty, str_puzzle},
     sort : {str_empty, str_trending, str_alpha},
     page : {NaN, 1, 2},
     filters : [categories : {<<>>, <<str_logic, str_logic>>},
                mechanisms : {<<>>},
                difficulty : {<<>>, <<str_hard>>},
                language : {<<>>}]]

InitFn ==
    /\ Loaded(AllControls, <<>>, 1, [i \in 1..Len(FacetInputs) |-> FALSE])
    /\ history = [length |-> 1, pathname |-> "/games/"]
    /\ call = NoCall
    /\ forum = NotLoaded /\ cta = NotLoaded /\ tablist = NotLoaded

CallMatchesFilters ==
    /\ call = NoCall
    /\ \E game \in FnGames, filters \in FnFilters :
        call' = [op |-> "matchesFilters", game |-> game, filters |-> filters,
                 result |-> matchesFilters(game, filters)]
    /\ UNCHANGED <<controls, history, pc, pageSize, games, state, url, grid,
                   pagination, summary, searchValue, sortValue, checked,
                   errors, uncaught, early,
                   forum, cta, tablist>>

CallMatchesSearch ==
    /\ call = NoCall
    /\ \E game \in FnGames, query \in FnQueries :
        call' = [op |-> "matchesSearch", game |-> game, query |-> query,
                 result |-> matchesSearch(game, query)]
    /\ UNCHANGED <<controls, history, pc, pageSize, games, state, url, grid,
                   pagination, summary, searchValue, sortValue, checked,
                   errors, uncaught, early,
                   forum, cta, tablist>>

\* updateQuery(st), then parseQuery of the query string it has put in the
\* address bar
CallUpdateThenParse ==
    /\ call = NoCall
    /\ \E st \in FnStates :
        call' = [op |-> "updateQuery;parseQuery", state |-> st,
                 search |-> updateQuery(st),
                 result |-> parseQuery(updateQuery(st))]
    /\ UNCHANGED <<controls, history, pc, pageSize, games, state, url, grid,
                   pagination, summary, searchValue, sortValue, checked,
                   errors, uncaught, early,
                   forum, cta, tablist>>

\* updateQuery(st): the query string it has put in the address bar
CallUpdateQuery ==
    /\ call = NoCall
    /\ \E st \in FnOddStates :
        call' = [op |-> "updateQuery", state |-> st, search |-> updateQuery(st)]
    /\ UNCHANGED <<controls, history, pc, pageSize, games, state, url, grid,
                   pagination, summary, searchValue, sortValue, checked,
                   errors, uncaught, early,
                   forum, cta, tablist>>

\* the view states a listener finds when its event arrives
FnListenerStates ==
    [search : {str_empty, str_puzzle},
     sort : {str_trending, str_alpha},
     page : {1, 3},
     filters : [categories : {<<>>, <<str_logic>>},
                mechanisms : {<<>>, <<str_dice>>},
                difficulty : {<<>>},
                language : {<<>>}]]

\* the data-facet attributes of facet inputs: the four keys of state.filters,
\* names that are no property of it and names it inherits
FnFacets == {"categories", "mechanisms", "difficulty", "language",
             "platform", "", "constructor", "__proto__"}

\* an event arrives at the listener of the search box, of the sort selector
\* or of a facet input: the state the listener leaves and whether it renders
CallListener ==
    /\ call = NoCall
    /\ \E st \in FnListenerStates :
        \/ \E value \in SearchInputs :
              call' = [op |-> "searchListener", state |-> st, value |-> value,
                       result |-> [state |-> searchListener(st, value),
                                   renders |-> TRUE, thrown |-> "none"]]
        \/ \E value \in SortOptions :
              call' = [op |-> "sortListener", state |-> st, value |-> value,
                       result |-> [state |-> sortListener(st, value),
                                   renders |-> TRUE, thrown |-> "none"]]
        \/ \E facet \in FnFacets, value \in {str_logic, str_dice}, isChecked \in BOOLEAN :
              call' = [op |-> "facetListener", state |-> st, facet |-> facet,
                       value |-> value, isChecked |-> isChecked,
                       result |-> facetListener(st, facet, value, isChecked)]
    /\ UNCHANGED <<controls, history, pc, pageSize, games, state, url, grid,
                   pagination, summary, searchValue, sortValue, checked,
                   errors, uncaught, early,
                   forum, cta, tablist>>

\* the result has been used and the next call can be made
CallReturn ==
    /\ call # NoCall
    /\ call' = NoCall
    /\ UNCHANGED <<controls, history, pc, pageSize, games, state, url, grid,
                   pagination, summary, searchValue, sortValue, checked,
                   errors, uncaught, early,
                   forum, cta, tablist>>

NextFn ==
    \/ CallMatchesFilters
    \/ CallMatchesSearch
    \/ CallUpdateThenParse
    \/ CallUpdateQuery
    \/ CallListener
    \/ CallReturn

SpecFn == InitFn /\ [][NextFn]_vars

----------------------------------------------------------------------------
(* The forum, the review widget and the mock authentication over the
   storage of the browser: specification SpecForum *)

\* the variables of the games page, which the other scripts leave alone
pageVars == <<controls, history, pc, pageSize, games, state, url, grid,
              pagination, summary, searchValue, sortValue, checked, errors,
              uncaught, early, call>>

\* largest number of accepted submissions, logins and registrations
MaxTime == 3

\* the lengths and the points of the validations and the awards
MinTitleLength == 10
MinContentLength == 50
MinReviewLength == 20
PostPoints == 15
ReviewPoints == 10

\* a text of n characters
Text(n) == [i \in 1..n |-> "x"]

\* !value of a form field: null or the empty string
falsy(value) == value = null \/ value = str_empty

\* the number a string converts to in a comparison with a number
Number(s) ==
    LET t == trim(s)
        digits == IF Len(t) > 0 /\ Head(t) \in {"+", "-"} THEN Tail(t) ELSE t
    IN IF t = str_empty THEN 0
       ELSE IF Len(digits) > 0 /\ \A i \in 1..Len(digits) : digits[i] \in DOMAIN DigitValue
       THEN parseInt(t)
       ELSE NaN

\* getItem of a key that has not been set
NoItem == [item |-> "null"]

\* localStorage.getItem(AUTH_KEY) || sessionStorage.getItem(AUTH_KEY): the
\* user record every component reads
userData(f) == IF f.local # NoItem THEN f.local ELSE f.session

\* the new-post forms: a title of 9 or 10 characters, no or a category, a
\* content of 49 or 50 characters, and a form without fields
PostForms ==
    [title : {Text(MinTitleLength - 1), Text(MinTitleLength)},
     category : {str_empty, str_logic},
     content : {Text(MinContentLength - 1), Text(MinContentLength)}]
    \cup {[title |-> null, category |-> null, content |-> null]}

\* the review forms: the rating of the hidden field, which the stars set to
\* their position and a reset to 0, and a text of 19 or 20 characters
ReviewForms ==
    [rating : {str_empty, <<"0">>, <<"1">>, <<"6">>},
     review : {Text(MinReviewLength - 1), Text(MinReviewLength)}]
    \cup {[rating |-> null, review |-> null]}

\* the validation of handleNewPost passes, the content not being checked
postValid_contentUnchecked(form) ==
    /\ ~(falsy(form.title) \/ Len(form.title) < MinTitleLength)
    /\ ~falsy(form.category)

\* the validation of handleNewPost passes
postValid(form) ==
    /\ ~(falsy(form.title) \/ Len(form.title) < MinTitleLength)
    /\ ~falsy(form.category)
    /\ ~(falsy(form.content) \/ Len(form.content) < MinContentLength)

\* the validation of handleReviewSubmit passes
reviewValid(form) ==
    /\ ~(falsy(form.rating) \/ Less(Number(form.rating), 1) \/ Greater(Number(form.rating), 5))
    /\ ~(falsy(form.review) \/ Len(form.review) < MinReviewLength)

\* savePost with push in place of unshift
savePost_push(posts, post) == Append(posts, post)

\* savePost and saveReview: the stored list, read, with the record put at
\* its beginning, written back
savePost(posts, post) == <<post>> \o posts

\* the write of the patched user record, always to localStorage
writeBack_local(f, user) == [f EXCEPT !.local = user]

\* the write of the patched user record: to localStorage if it has a record,
\* to sessionStorage otherwise
writeBack(f, user) ==
    IF f.local # NoItem THEN [f EXCEPT !.local = user] ELSE [f EXCEPT !.session = user]

\* the record handleLogin and handleRegister create
mockUser(now, username) ==
    [id |-> now, username |-> username, points |-> 0, posts |-> 0, comments |-> 0]

\* handleLogin, every login succeeding
handleLogin(f, email, remember) ==
    LET user == mockUser(f.now, email)
        stored == IF remember THEN [f EXCEPT !.local = user]
                  ELSE [f EXCEPT !.session = user]
    IN [stored EXCEPT !.now = f.now + 1,
                      !.last = [op |-> "login", username |-> email,
                                remember |-> remember, at |-> f.now]]

\* handleRegister
handleRegister(f, username, confirmed) ==
    LET mark == [op |-> "register", username |-> username,
                 confirmed |-> confirmed, at |-> f.now]
    IN IF ~confirmed THEN [f EXCEPT !.last = mark]
       ELSE [f EXCEPT !.local = mockUser(f.now, username),
                      !.now = f.now + 1, !.last = mark]

\* handleNewPost
handleNewPost(f, form) ==
    LET mark == [op |-> "post", form |-> form, at |-> f.now]
        user == userData(f)
        post == [id |-> f.now, authorId |-> user.id, authorName |-> user.username,
                 title |-> form.title, category |-> form.category,
                 content |-> form.content]
        patched == [user EXCEPT !.posts = @ + 1, !.points = @ + PostPoints]
    IN IF ~postValid(form) \/ user = NoItem THEN [f EXCEPT !.last = mark]
       ELSE [writeBack(f, patched) EXCEPT
                !.posts = savePost(f.posts, post),
                !.sentPosts = Append(@, post),
                !.now = f.now + 1, !.last = mark]

\* handleReviewSubmit on the page of one game
handleReviewSubmit(f, form) ==
    LET mark == [op |-> "review", form |-> form, at |-> f.now]
        user == userData(f)
        review == [id |-> f.now, userId |-> user.id, username |-> user.username,
                   rating |-> parseInt(form.rating), text |-> form.review]
        patched == [user EXCEPT !.comments = @ + 1, !.points = @ + ReviewPoints]
    IN IF ~reviewValid(form) \/ user = NoItem THEN [f EXCEPT !.last = mark]
       ELSE [writeBack(f, patched) EXCEPT
                !.reviews = savePost(f.reviews, review),
                !.sentReviews = Append(@, review),
                !.now = f.now + 1, !.last = mark]

\* the posts and the reviews the storage holds when the browser is opened
StoredLists ==
    {[posts |-> <<>>, reviews |-> <<>>],
     [posts |-> <<[id |-> 0, authorId |-> 0, authorName |-> str_Bob,
                   title |-> Text(MinTitleLength), category |-> str_logic,
                   content |-> Text(MinContentLength)]>>,
      reviews |-> <<[id |-> 0, userId |-> 0, username |-> str_Bob,
                     rating |-> 4, text |-> Text(MinReviewLength)]>>]}

\* the browser is opened on the site: nobody is logged in.  opened, sentPosts
\* and sentReviews are the history of the session: the lists the storage held
\* at first and the records of the accepted submissions in their order.
InitForum ==
    /\ Loaded(AllControls, <<>>, 1, [i \in 1..Len(FacetInputs) |-> FALSE])
    /\ history = [length |-> 1, pathname |-> "/games/"]
    /\ call = NoCall
    /\ cta = NotLoaded /\ tablist = NotLoaded
    /\ \E stored \in StoredLists :
        forum = [loaded |-> TRUE, local |-> NoItem, session |-> NoItem,
                 posts |-> stored.posts, reviews |-> stored.reviews,
                 now |-> 1, last |-> [op |-> "none"],
                 opened |-> stored, sentPosts |-> <<>>, sentReviews |-> <<>>]

\* the login form is submitted
Login ==
    /\ forum.now <= MaxTime
    /\ \E remember \in BOOLEAN : forum' = handleLogin(forum, str_Ann, remember)
    /\ UNCHANGED <<pageVars, cta, tablist>>

\* the registration form is submitted, with or without matching passwords
Register ==
    /\ forum.now <= MaxTime
    /\ \E confirmed \in BOOLEAN : forum' = handleRegister(forum, str_Bob, confirmed)
    /\ UNCHANGED <<pageVars, cta, tablist>>

\* the new-post form is submitted
SubmitPost ==
    /\ forum.now <= MaxTime
    /\ \E form \in PostForms : forum' = handleNewPost(forum, form)
    /\ UNCHANGED <<pageVars, cta, tablist>>

\* the review form is submitted
SubmitReview ==
    /\ forum.now <= MaxTime
    /\ \E form \in ReviewForms : forum' = handleReviewSubmit(forum, form)
    /\ UNCHANGED <<pageVars, cta, tablist>>

NextForum ==
    \/ Login
    \/ Register
    \/ SubmitPost
    \/ SubmitReview

SpecForum == InitForum /\ [][NextForum]_vars

----------------------------------------------------------------------------
(* The call-to-action overlay of a game page: specification SpecOverlay *)

\* the delay of the timer, in milliseconds
Delay == 120000
\* the milliseconds that pass in one step of the clock
TickMs == 30000
\* the steps of the clock of one page load
MaxTicks == 6

\* closeOverlay without clearTimeout
closeOverlay_timerKept(c) ==
    [c EXCEPT !.hidden = "true", !.dismissed = TRUE]

\* closeOverlay: the overlay is hidden and the timer cleared; clearing a
\* timer that has fired does nothing.  dismissed records the dismissal.
closeOverlay(c) ==
    [c EXCEPT !.hidden = "true",
              !.timer = IF @ = "armed" THEN "cleared" ELSE @,
              !.dismissed = TRUE]

\* the callback of the timer: the overlay is shown and the link focused.
\* shown counts the times the overlay went from hidden to visible.
timerCallback(c) ==
    [c EXCEPT !.hidden = "false",
              !.timer = "fired",
              !.focus = IF c.focusTarget THEN "link" ELSE @,
              !.shown = IF c.hidden = "false" THEN @ ELSE @ + 1]

\* the page has loaded with an overlay in its markup, hidden or not, with or
\* without a dismiss button and a primary link: the timer is armed
InitOverlay ==
    /\ Loaded(AllControls, <<>>, 1, [i \in 1..Len(FacetInputs) |-> FALSE])
    /\ history = [length |-> 1, pathname |-> "/games/"]
    /\ call = NoCall
    /\ forum = NotLoaded /\ tablist = NotLoaded
    /\ \E button \in BOOLEAN, link \in BOOLEAN, hidden \in {"true", "false"} :
        cta = [loaded |-> TRUE, dismissButton |-> button, focusTarget |-> link,
               hidden |-> hidden, timer |-> "armed", elapsed |-> 0,
               focus |-> "page", shown |-> 0, dismissed |-> FALSE]

\* time passes; an armed timer fires before time passes its delay
Tick ==
    /\ cta.elapsed < MaxTicks * TickMs
    /\ cta.timer = "armed" => cta.elapsed < Delay
    /\ cta' = [cta EXCEPT !.elapsed = @ + TickMs]
    /\ UNCHANGED <<pageVars, forum, tablist>>

\* the timer fires
TimerFires ==
    /\ cta.timer = "armed"
    /\ cta.elapsed >= Delay
    /\ cta' = timerCallback(cta)
    /\ UNCHANGED <<pageVars, forum, tablist>>

\* a click on the dismiss button
DismissClick ==
    /\ cta.dismissButton
    /\ cta' = closeOverlay(cta)
    /\ UNCHANGED <<pageVars, forum, tablist>>

\* a click on the overlay: on its backdrop, the target being the overlay, or
\* on its content
OverlayClick ==
    /\ \E target \in {"overlay", "content"} :
        cta' = IF target = "overlay" THEN closeOverlay(cta)
               ELSE [cta EXCEPT !.focus = "page"]
    /\ UNCHANGED <<pageVars, forum, tablist>>

\* a key is pressed anywhere in the document
KeyDown ==
    /\ \E key \in {"Escape", "Enter"} :
        cta' = IF key = "Escape" /\ cta.hidden = "false" THEN closeOverlay(cta)
               ELSE [cta EXCEPT !.focus = IF key = "Enter" THEN "page" ELSE @]
    /\ UNCHANGED <<pageVars, forum, tablist>>

NextOverlay ==
    \/ Tick
    \/ TimerFires
    \/ DismissClick
    \/ OverlayClick
    \/ KeyDown

SpecOverlay == InitOverlay /\ [][NextOverlay]_vars

----------------------------------------------------------------------------
(* A tab list of the home page: specification SpecTabs *)

\* the largest number of tabs of a tab list
MaxTabs == 4
\* the largest number of clicks and key presses on a tab list
MaxTabEvents == 4

\* the id of the panel of the i-th tab
panelId(i) == <<"p">> \o String(i)

\* selectTab(buttons[index], tablist): the attributes of the tabs and of
\* the panels
selectTab(t, index) ==
    [t EXCEPT
        !.selected = [i \in 1..Len(t.selected) |-> i = index],
        !.tabindex = [i \in 1..Len(t.tabindex) |-> IF i = index THEN 0 ELSE -1],
        !.hidden = [p \in 1..Len(t.panels) |-> ~(t.panels[p] = t.targets[index])]]

\* the index of the tab an arrow key leads to, counted from the first tab
\* as the position of the tab that currentIndex counts from
arrowTarget_noWrap(currentIndex, key, length) ==
    IF key = "ArrowRight" THEN (IF currentIndex < length THEN currentIndex + 1 ELSE length)
    ELSE (IF currentIndex > 1 THEN currentIndex - 1 ELSE 1)

\* the position of buttons[(currentIndex + 1) % length] for ArrowRight and of
\* buttons[(currentIndex - 1 + length) % length] for ArrowLeft, the positions
\* counting from 1
arrowTarget(currentIndex, key, length) ==
    IF key = "ArrowRight" THEN (((currentIndex - 1) + 1) % length) + 1
    ELSE (((currentIndex - 1) - 1 + length) % length) + 1

\* the tab lists of the markup: 3 to MaxTabs tabs, the first one selected and
\* its panel shown; the panel of the last tab may be missing
TabLists ==
    UNION {{[loaded |-> TRUE,
      selected |-> [i \in 1..n |-> i = 1],
      tabindex |-> [i \in 1..n |-> IF i = 1 THEN 0 ELSE -1],
      targets |-> [i \in 1..n |-> panelId(i)],
      panels |-> [p \in 1..m |-> panelId(p)],
      hidden |-> [p \in 1..m |-> p # 1],
      focus |-> 0, events |-> 0, last |-> [key |-> "none"]] :
        m \in {n - 1, n}} : n \in 3..MaxTabs}

\* the home page has loaded: the listeners are on the tabs, the focus is
\* outside the tab list
InitTabs ==
    /\ Loaded(AllControls, <<>>, 1, [i \in 1..Len(FacetInputs) |-> FALSE])
    /\ history = [length |-> 1, pathname |-> "/"]
    /\ call = NoCall
    /\ forum = NotLoaded /\ cta = NotLoaded
    /\ tablist \in TabLists

\* a click on a tab: its click listener selects it; whether the click also
\* moves the focus to the button depends on the browser
TabClick ==
    /\ tablist.events < MaxTabEvents
    /\ \E index \in 1..Len(tablist.selected), focused \in BOOLEAN :
        LET focus == IF focused THEN index ELSE tablist.focus
        IN tablist' = [selectTab(tablist, index) EXCEPT
                       !.focus = focus,
                       !.events = @ + 1,
                       !.last = [key |-> "click", index |-> index]]
    /\ UNCHANGED <<pageVars, forum, cta>>

\* a key is pressed while a tab has the focus: the keydown listener of that
\* tab runs
TabKeyDown ==
    /\ tablist.events < MaxTabEvents
    /\ tablist.focus # 0
    /\ \E key \in {"ArrowRight", "ArrowLeft", "Home"} :
        LET currentIndex == tablist.focus
            target == arrowTarget(currentIndex, key, Len(tablist.selected))
            mark == [key |-> key, index |-> currentIndex]
        IN tablist' = IF key \in {"ArrowRight", "ArrowLeft"}
                      THEN [selectTab(tablist, target) EXCEPT
                               !.focus = target, !.events = @ + 1, !.last = mark]
                      ELSE [tablist EXCEPT !.events = @ + 1, !.last = mark]
    /\ UNCHANGED <<pageVars, forum, cta>>

\* the Tab key moves the focus into the tab list, to the tab with tabindex 0,
\* or out of it
FocusMoves ==
    /\ \E focus \in {0} \cup {i \in 1..Len(tablist.tabindex) : tablist.tabindex[i] = 0} :
        /\ focus # tablist.focus
        /\ tablist' = [tablist EXCEPT !.focus = focus]
    /\ UNCHANGED <<pageVars, forum, cta>>

NextTabs ==
    \/ TabClick
    \/ TabKeyDown
    \/ FocusMoves

SpecTabs == InitTabs /\ [][NextTabs]_vars

----------------------------------------------------------------------------
(* Properties *)

\* the number of items that pass both filters of the current view state
filteredCount == Len(renderFiltered(games, state))

\* C1: after every render the page of the view state is an integer with
\* 1 <= page <= max(1, ceil(filteredCount / pageSize)), whatever query string
\* the page was opened with.
C1_PageWithinRange ==
    pc = "ready" =>
        /\ state.page # NaN
        /\ 1 <= state.page
        /\ state.page <= (IF CeilDiv(filteredCount, pageSize) > 1
                          THEN CeilDiv(filteredCount, pageSize) ELSE 1)

\* the page parameter of a query string is malformed: empty, without a
\* leading number, zero or negative
MalformedPage(search) ==
    /\ paramsHas(search, "page")
    /\ LET value == getAll(search, "page")[1]
       IN \/ value = <<>>
          \/ \A i \in 1..Len(value) : value[i] \notin DOMAIN DigitValue
          \/ (parseInt(value) # NaN /\ parseInt(value) <= 0)

\* C2: a query string with a malformed page parameter is parsed to page 1,
\* and the first render then shows the first page of the results.
C2_MalformedPageIsFirstPage ==
    [][pc = "pending" /\ MalformedPage(url) /\ pc' = "ready" =>
            /\ state.page = 1
            /\ state'.page = 1
            /\ grid' = slice(renderSorted(games', state'), 0, pageSize)]_vars

\* the values of an array field of an item, none when the field is absent
FieldSet(game, field) ==
    IF field \in DOMAIN game THEN {game[field][i] : i \in 1..Len(game[field])} ELSE {}

\* the values an item has in a facet
FacetValues(game, facet) ==
    IF facet = "difficulty"
    THEN (IF "difficulty" \in DOMAIN game THEN {game.difficulty} ELSE {})
    ELSE IF facet = "language" THEN FieldSet(game, "languages")
    ELSE FieldSet(game, facet)

\* the values selected in a facet
Selected(filters, facet) == {filters[facet][i] : i \in 1..Len(filters[facet])}

Facets == {"categories", "mechanisms", "difficulty", "language"}

\* C3: matchesFilters(item, filters) is true exactly when every facet with a
\* non-empty selection has at least one selected value among the item's values
\* in that facet; an absent field of the item has no values.
C3_MatchesFiltersFacets ==
    call.op = "matchesFilters" =>
        (call.result <=>
            \A facet \in Facets :
                \/ Selected(call.filters, facet) = {}
                \/ FacetValues(call.game, facet) \cap Selected(call.filters, facet) # {})

\* matchesFilters has accepted an item under selections in two facets, one of
\* them with two values, and has rejected an item that lacks a selected field
C3_Witness ==
    /\ call.op = "matchesFilters"
    /\ call.result
    /\ Len(call.filters.categories) = 2
    /\ Len(call.filters.language) = 2
    /\ Len(call.filters.mechanisms) = 0
    /\ "mechanisms" \notin DOMAIN call.game

\* the items of a catalog, by position, that pass both filters of a view
\* state, and those that pass its search alone
MatchingItems(catalog, st) ==
    {i \in 1..Len(catalog) : /\ matchesFilters(catalog[i], st.filters)
                             /\ matchesSearch(catalog[i], st.search)}
SearchMatches(catalog, st) ==
    {i \in 1..Len(catalog) : matchesSearch(catalog[i], st.search)}

NoSelection(st) == \A facet \in Facets : Len(st.filters[facet]) = 0

\* a step of the loaded page that adds one value to the selection of a facet
\* and leaves the search text, the other facets and the catalog as they are
AddsSelectionTo(facet) ==
    /\ pc = "ready" /\ pc' = "ready"
    /\ games' = games
    /\ state'.search = state.search
    /\ Len(state'.filters[facet]) = Len(state.filters[facet]) + 1
    /\ SubSeq(state'.filters[facet], 1, Len(state.filters[facet])) = state.filters[facet]
    /\ \A other \in Facets \ {facet} : state'.filters[other] = state.filters[other]

\* C4 as claimed: with no selection the matching items are those the search
\* text admits, and adding a facet selection never adds a matching item.
C4_AnySelectionNarrows ==
    [][/\ (pc' = "ready" /\ NoSelection(state')
              => MatchingItems(games', state') = SearchMatches(games', state'))
       /\ \A facet \in Facets :
            AddsSelectionTo(facet)
                => MatchingItems(games', state') \subseteq MatchingItems(games, state)]_vars

\* C4 as amended: with no selection the matching items are those the search
\* text admits, and adding a selection to a facet that had none never adds a
\* matching item.
C4_FirstSelectionNarrows ==
    [][/\ (pc' = "ready" /\ NoSelection(state')
              => MatchingItems(games', state') = SearchMatches(games', state'))
       /\ \A facet \in Facets :
            AddsSelectionTo(facet) /\ Len(state.filters[facet]) = 0
                => MatchingItems(games', state') \subseteq MatchingItems(games, state)]_vars

\* the only selection is the mechanism dice, ticked on the page, and it has
\* removed items that the search text admits
C4_Witness ==
    /\ pc = "ready"
    /\ controls.facets
    /\ checked[3]
    /\ state.filters.mechanisms = <<str_dice>>
    /\ \A facet \in Facets \ {"mechanisms"} : Len(state.filters[facet]) = 0
    /\ MatchingItems(games, state) # {}
    /\ MatchingItems(games, state) # SearchMatches(games, state)

\* the text parts of an item that the search looks at: an absent title,
\* summary or author is an empty part, an absent list has no parts
SearchParts(game) ==
    <<prop(game, "title", <<>>), prop(game, "summary", <<>>), prop(game, "author", <<>>)>>
    \o prop(game, "categories", <<>>) \o prop(game, "mechanisms", <<>>)

\* the parts written one after the other with sep between consecutive parts
RECURSIVE Concatenation(_, _)
Concatenation(parts, sep) ==
    IF Len(parts) = 0 THEN <<>>
    ELSE IF Len(parts) = 1 THEN parts[1]
    ELSE Concatenation(SubSeq(parts, 1, Len(parts) - 1), sep) \o sep \o parts[Len(parts)]

\* the text q occurs in the text h
Occurs(q, h) ==
    \E at \in 1..(Len(h) - Len(q) + 1) : \A j \in 1..Len(q) : h[at + j - 1] = q[j]

\* C5 as claimed: the empty query matches every item, and a non-empty query
\* matches exactly when, case-folded, it occurs in the case-folded
\* concatenation of title, summary, author, categories and mechanisms.
C5_SubstringOfConcatenation ==
    call.op = "matchesSearch" =>
        (call.result <=>
            \/ call.query = <<>>
            \/ Occurs(toLowerCase(call.query),
                      toLowerCase(Concatenation(SearchParts(call.game), <<>>))))

\* C5 as amended: the empty query matches every item, and a non-empty query
\* matches exactly when, case-folded, it occurs in the case-folded text made
\* of title, summary, author, each category and each mechanism with a single
\* space between consecutive parts.
C5_SubstringOfSpacedParts ==
    call.op = "matchesSearch" =>
        (call.result <=>
            \/ call.query = <<>>
            \/ Occurs(toLowerCase(call.query),
                      toLowerCase(Concatenation(SearchParts(call.game), <<" ">>))))

\* a query with an upper-case letter and a space has matched across the
\* boundary of two parts of an item
C5_Witness ==
    /\ call.op = "matchesSearch"
    /\ call.result
    /\ call.query = <<"n", " ", "L", "o", "g">>
    /\ call.game.author = str_Ann

\* a sequence of numbers is in descending order
Descending(numbers) ==
    \A i, j \in 1..Len(numbers) : i < j => numbers[i] >= numbers[j]

\* the items shown are in ascending order of their titles, the case of the
\* letters not counting
AscendingTitles(items) ==
    \A i, j \in 1..Len(items) :
        i < j => compareRanks(charRanks(toLowerCase(items[i].title)),
                              charRanks(toLowerCase(items[j].title))) <= 0

\* the items shown are in the order of the sort whose key is named
ShownInOrderOf(newest, mostRated, alphabetical, trending) ==
    /\ state.sort = newest =>
           Descending([i \in 1..Len(grid) |-> grid[i].created_at])
    /\ state.sort = mostRated =>
           Descending([i \in 1..Len(grid) |-> prop(grid[i], "rating", 0)])
    /\ state.sort = alphabetical => AscendingTitles(grid)
    /\ state.sort = trending =>
           Descending([i \in 1..Len(grid) |-> computeTrendingScore(grid[i])])

C7_ShownIsSliceOfPipeline ==
    pc = "ready" =>
        LET sorted == renderSorted(games, state)
            pages == IF CeilDiv(Len(sorted), pageSize) > 1
                     THEN CeilDiv(Len(sorted), pageSize) ELSE 1
            last == IF state.page * pageSize < Len(sorted)
                    THEN state.page * pageSize ELSE Len(sorted)
        IN /\ state.page \in 1..pages
           /\ grid = SubSeq(sorted, (state.page - 1) * pageSize + 1, last)

\* C8: updateQuery followed by parseQuery gives back the view state, for every
\* view state with page >= 1.
C8_RoundTrip ==
    call.op = "updateQuery;parseQuery" => call.result = call.state

\* the view state search=puzzle, sort=newest, categories=[logic], page=2 has
\* been serialised with its four parameters and parsed back
C8_Witness ==
    /\ call.op = "updateQuery;parseQuery"
    /\ call.state = [search |-> str_puzzle, sort |-> str_newest, page |-> 2,
                     filters |-> [categories |-> <<str_logic>>, mechanisms |-> <<>>,
                                  difficulty |-> <<>>, language |-> <<>>]]
    /\ Len(call.search) = 4
    /\ call.result = call.state

\* C9: after the first render and after every handled event the query string
\* of the address bar is the serialisation of the current view state.
C9_AddressBarIsSerialisedState ==
    pc = "ready" => url = updateQuery(state)

\* a page beyond the last was asked for, and the address bar shows the search
\* text, the selected category and the clamped page 2
C9_Witness ==
    /\ pc = "ready"
    /\ state.page = 2
    /\ state.search # <<>>
    /\ Len(state.filters.categories) > 0
    /\ filteredCount = 2
    /\ paramsHas(url, "search") /\ paramsHas(url, "category")
    /\ getAll(url, "page") = << <<"2">> >>

\* C10: initialising again from the query string a render has left in the
\* address bar gives the same view state, shows the same items and leaves the
\* query string as it is.
C10_ReloadReproducesView ==
    pc = "ready" =>
        LET again == render(games, parseQuery(url), pageSize)
        IN /\ ~sortThrows(sorterFor(parseQuery(url).sort))
           /\ again.state = state
           /\ again.grid = grid
           /\ again.url = url

\* the view state with an empty search text, the sort trending, no selected
\* facet value and page 1
DefaultState ==
    [search |-> str_empty, sort |-> str_trending, page |-> 1,
     filters |-> [categories |-> <<>>, mechanisms |-> <<>>,
                  difficulty |-> <<>>, language |-> <<>>]]

\* C11: the serialised query string has the parameter search only when the
\* search text is not empty, sort only when the sort key is not trending,
\* page only when page > 1, one parameter category, mechanism, difficulty or
\* language for each selected facet value, and no other parameter; the
\* default view state is serialised to no parameter at all.
C11_SerialisedParameters ==
    call.op \in {"updateQuery", "updateQuery;parseQuery"} =>
        LET st == call.state
            q == call.search
        IN /\ getAll(q, "search") = (IF st.search # <<>> THEN <<st.search>> ELSE <<>>)
           /\ paramsHas(q, "sort") => st.sort # str_trending
           /\ getAll(q, "sort") = (IF st.sort \notin {str_trending, str_empty}
                                   THEN <<st.sort>> ELSE <<>>)
           /\ getAll(q, "page") = (IF st.page # NaN /\ st.page > 1
                                   THEN <<numberDigits(st.page)>> ELSE <<>>)
           /\ getAll(q, "category") = st.filters.categories
           /\ getAll(q, "mechanism") = st.filters.mechanisms
           /\ getAll(q, "difficulty") = st.filters.difficulty
           /\ getAll(q, "language") = st.filters.language
           /\ \A i \in 1..Len(q) :
                q[i].k \in {"search", "sort", "page", "category", "mechanism",
                            "difficulty", "language"}
           /\ st = DefaultState => q = <<>>

\* the default view state has been serialised, to no parameter
C11_Witness ==
    /\ call.op = "updateQuery;parseQuery"
    /\ call.state = DefaultState
    /\ call.search = <<>>

\* the controls of the page show the view state st: an input of one of the
\* facets of the view state is checked if and only if its value is selected
\* in its facet, the search box has the search text and the sort selector the
\* sort key
ControlsShow(st, boxes, searchShown, sortShown) ==
    /\ \A i \in 1..Len(boxes) :
          FacetInputs[i].facet \in DOMAIN st.filters =>
              (boxes[i] <=> arrayIncludes(st.filters[FacetInputs[i].facet],
                                          FacetInputs[i].value))
    /\ controls.search => searchShown = st.search
    /\ controls.sort => sortShown = st.sort

\* C12: when initialisation completes, and after every later change of a facet
\* input, the controls of the page show the view state, whatever state the
\* controls were in when the page loaded.
C12_ControlsShowState ==
    [][\/ pc = "pending" /\ pc' = "ready"
       \/ pc = "ready" /\ pc' = "ready" /\ checked' # checked
           => ControlsShow(state', checked', searchValue', sortValue')]_vars

\* C13: with a sort value that is not a key of sorters, the shown items are in
\* descending order of trending score and no render throws.
C13_UnknownSortIsTrending ==
    pc \in {"ready", "failed"} /\ state.sort \notin SorterKeys =>
        /\ uncaught = "none"
        /\ \A i \in 1..Len(errors) : errors[i] # "TypeError"
        /\ pc = "ready" =>
              Descending([i \in 1..Len(grid) |-> computeTrendingScore(grid[i])])

\* the number of pages of a number of items: 1 when there is none, otherwise
\* the least number of pages of the given size that hold them all
TotalPages(total, size) ==
    IF total = 0 THEN 1
    ELSE CHOOSE n \in 1..total : n * size >= total /\ (n - 1) * size < total

\* C14: the pagination control is empty when there is one page; otherwise it
\* has a Previous link if and only if page > 1, then one entry for each page
\* 1..totalPages in order, of which the current page alone is not a link, then
\* a Next link if and only if page < totalPages.
C14_PaginationControl ==
    pc = "ready" /\ controls.pagination =>
        LET totalPages == TotalPages(filteredCount, pageSize)
            hasPrevious == state.page # NaN /\ state.page > 1
            hasNext == state.page # NaN /\ state.page < totalPages
            offset == IF hasPrevious THEN 1 ELSE 0
        IN IF totalPages <= 1
           THEN pagination = <<>>
           ELSE /\ Len(pagination) = offset + totalPages + (IF hasNext THEN 1 ELSE 0)
                /\ hasPrevious => /\ pagination[1].tag = "a"
                                  /\ pagination[1].label = str_Previous
                /\ \A p \in 1..totalPages :
                      /\ pagination[offset + p].label = numberDigits(p)
                      /\ pagination[offset + p].tag = "span" <=> p = state.page
                      /\ pagination[offset + p].tag \in {"span", "a"}
                /\ hasNext => /\ pagination[Len(pagination)].tag = "a"
                              /\ pagination[Len(pagination)].label = str_Next

\* page 2 of four is shown: Previous, 1, the current page 2, 3, 4, Next
C14_Witness ==
    /\ pc = "ready"
    /\ state.page = 2
    /\ Len(pagination) = 6
    /\ pagination[1].label = str_Previous
    /\ pagination[3].tag = "span"
    /\ pagination[6].label = str_Next

\* the page a link of the pagination control leads to
TargetPage(link) ==
    IF link.label = str_Previous THEN state.page - 1
    ELSE IF link.label = str_Next THEN state.page + 1
    ELSE parseInt(link.label)

\* C15: after every render the href of each pagination link is the path of
\* the page followed by the serialisation of the view state with the page of
\* the link in the place of the current page.
C15_LinksCarryViewState ==
    pc = "ready" =>
        \A i \in 1..Len(pagination) :
            pagination[i].tag = "a" =>
                /\ pagination[i].href.pathname = history.pathname
                /\ pagination[i].href.search =
                       updateQuery([state EXCEPT !.page = TargetPage(pagination[i])])

\* the links of a view with a search text, a sort key and a selected category
\* carry all three, and the link to page 1 has no page parameter
C15_Witness ==
    /\ pc = "ready"
    /\ state.search # <<>>
    /\ state.sort = str_alpha
    /\ Len(state.filters.categories) > 0
    /\ state.page = 2
    /\ pagination[1].label = str_Previous
    /\ pagination[1].href.search =
           <<Param("search", state.search), Param("sort", str_alpha),
             Param("category", state.filters.categories[1])>>

\* C16: the fetched catalog is never modified: it is one of the catalogs the
\* fetch delivers, and no render and no event changes its items or their order.
C16_CatalogUnchanged ==
    [][/\ pc' = "ready" => games' \in Catalogs
       /\ pc = "ready" /\ pc' = "ready" => games' = games]_vars

\* the items are shown newest first, in another order than the catalog has
C16_Witness ==
    /\ pc = "ready"
    /\ state.sort = str_new
    /\ Len(grid) >= 2
    /\ grid[1] # games[1]
    /\ games = SubSeq(AllGames, 1, CatalogSize)

\* C17: when the fetch or the parsing of its JSON fails the error is logged,
\* the grid, the pagination control, the results count and the address bar
\* stay as they were, no fetch is pending afterwards and no exception leaves
\* initialiseGames.
C17_FetchFailureLeavesPage ==
    [][pc = "pending" /\ errors' = Append(errors, "fetch") =>
            /\ pc' = "failed"
            /\ grid' = grid /\ pagination' = pagination /\ summary' = summary
            /\ url' = url /\ history' = history
            /\ uncaught' = "none"]_vars

\* the fetch has failed on a page opened with a query string
C17_Witness ==
    /\ pc = "failed"
    /\ errors = <<"fetch">>
    /\ url # <<>>
    /\ grid = <<>> /\ summary = NoSummary

\* C18: whichever of the pagination container, the search box, the sort
\* selector, the facet inputs and the results count the page lacks, no
\* initialisation and no render throws, what the page lacks is left alone and
\* what it has shows the render of the view state; without a grid nothing is
\* parsed, fetched, written or thrown.
C18_AbsentControlsAreSkipped ==
    /\ uncaught = "none"
    /\ \A i \in 1..Len(errors) : errors[i] = "fetch" \/ sortThrows(sorterFor(state.sort))
    /\ ~controls.pagination => pagination = <<>>
    /\ ~controls.summary => summary = NoSummary
    /\ ~controls.search => searchValue = str_empty
    /\ ~controls.sort => sortValue = str_trending
    /\ ~controls.facets => checked = <<>>
    /\ ~controls.grid =>
          /\ pc = "returned" /\ state = NoState /\ games = <<>>
          /\ grid = <<>> /\ errors = <<>>
    /\ pc = "ready" =>
          \E r \in {render(games, state, pageSize)} :
              /\ grid = r.grid
              /\ url = r.url
              /\ controls.pagination =>
                     pagination = anchored(r.pagination, history.pathname)
              /\ controls.summary => summary = r.summary

\* on a page with a grid and a search box alone, a text typed into the search
\* box has been searched for and its results are shown
C18_Witness ==
    /\ controls = [grid |-> TRUE, pagination |-> FALSE, search |-> TRUE,
                   sort |-> FALSE, facets |-> FALSE, summary |-> FALSE]
    /\ pc = "ready"
    /\ searchValue # <<>>
    /\ state.search = trim(searchValue)
    /\ paramsHas(url, "search")
    /\ grid # <<>>

\* C19: while the fetch is pending a user event on the search box, the sort
\* selector, a facet input or the pagination container throws nothing and
\* leaves the view state, the grid and the address bar as they are.
C19_InertWhilePending ==
    [][pc = "pending" /\ pc' = "pending" =>
            /\ state' = state
            /\ grid' = grid
            /\ url' = url /\ history' = history
            /\ games' = games /\ pagination' = pagination /\ summary' = summary
            /\ uncaught' = "none"]_vars

\* the user has typed into the search box while the fetch is pending
C19_Witness ==
    /\ pc = "pending"
    /\ early > 0
    /\ searchValue # <<>>
    /\ state.search = <<>>
    /\ url = <<>>

\* C20: no change of filter, sort, search or page adds a history entry: the
\* number of entries and the path stay as they are, whatever is written to
\* the address bar.
C20_NoHistoryEntryAdded ==
    [][/\ history'.length = history.length
       /\ history'.pathname = history.pathname]_vars

\* the address bar of a page opened as the third entry of the history has
\* been rewritten after a change of the sort
C20_Witness ==
    /\ pc = "ready"
    /\ history = [length |-> 3, pathname |-> "/"]
    /\ state.sort = str_alpha
    /\ sortValue = str_alpha
    /\ getAll(url, "sort") = <<str_alpha>>

----------------------------------------------------------------------------
(* The end-to-end scenario *)

\* the items of a catalog that have the mechanism dice
diceItems(catalog) ==
    SelectSeq(catalog, LAMBDA game : arrayIncludes(prop(game, "mechanisms", <<>>), str_dice))

\* the view state whose only selection is the mechanism dice
diceSelected(st) ==
    /\ st.filters = [categories |-> <<>>, mechanisms |-> <<str_dice>>,
                     difficulty |-> <<>>, language |-> <<>>]
    /\ st.search = str_empty
    /\ st.sort = str_trending

\* C21: with the catalog of 30 items of which exactly 10 have the mechanism
\* dice, page size 24 and the single facet selection mechanism=dice, the
\* render shows exactly those 10 items on one page in descending order of the
\* trending score, the page is 1 and the pagination control has no links.
C21_EndToEnd ==
    (pc = "ready" /\ games = BigCatalog /\ pageSize = 24 /\ diceSelected(state)) =>
        /\ Len(games) = 30
        /\ Len(grid) = 10
        /\ {grid[i] : i \in 1..Len(grid)} =
               {games[i] : i \in {n \in 1..Len(games) : n % 3 = 0}}
        /\ {grid[i] : i \in 1..Len(grid)} =
               {diceItems(games)[i] : i \in 1..Len(diceItems(games))}
        /\ Descending([i \in 1..Len(grid) |-> computeTrendingScore(grid[i])])
        /\ state.page = 1
        /\ pagination = <<>>
        /\ summary = 10

\* the dice box has been checked on the page opened without a selection, and
\* the ten items are shown in an order that is not the order of the catalog
C21_Witness ==
    /\ pc = "ready"
    /\ games = BigCatalog
    /\ pageSize = 24
    /\ diceSelected(state)
    /\ checked[3]
    /\ Len(grid) = 10
    /\ grid # diceItems(games)
    /\ \E i \in 1..9 : computeTrendingScore(grid[i]) > computeTrendingScore(grid[i + 1])
----------------------------------------------------------------------------
(* The page size *)

\* C27: for every value of the data-page-size attribute of the grid (absent,
\* non-numeric, zero, negative or positive) and every catalog, render with
\* its pagination terminates and shows at most pageSize items.
C27_TerminatesWithinPageSize ==
    /\ pc # "hung"
    /\ pc = "ready" => (IF pageSize = NaN THEN grid = <<>> ELSE Len(grid) <= pageSize)

\* render terminates when the page size is not zero or nothing is to be shown
C27_TerminatesUnlessZero ==
    pc = "hung" => (pageSize = 0 /\ games # <<>>)

\* a positive page size bounds the number of items shown
C27_PositiveSizeBounds ==
    (pc = "ready" /\ pageSize > 0) => Len(grid) <= pageSize

\* the page whose grid has data-page-size="0" hangs in its first render
C27_HangWitness == pc = "hung" /\ pageSize = 0 /\ grid = <<>> /\ summary = NoSummary

\* the page whose grid has data-page-size="-2" shows two items
C27_NegativeWitness == pc = "ready" /\ pageSize = 0 - 2 /\ Len(grid) = 2
----------------------------------------------------------------------------
(* The page of the view after an event on a control *)

\* the keys of state.filters
FacetNames == {"categories", "mechanisms", "difficulty", "language"}

\* C26: every search edit, sort change and facet toggle sets the page of the
\* view state to 1 before it renders; a facet toggle whose facet name is
\* not one of categories, mechanisms, difficulty, language changes nothing
\* and does not render.
C26_ListenersResetPage ==
    /\ call.op \in {"searchListener", "sortListener"} =>
           call.result.renders /\ call.result.state.page = 1
    /\ call.op = "facetListener" =>
           IF call.facet \in FacetNames
           THEN call.result.renders /\ call.result.state.page = 1
           ELSE ~call.result.renders /\ call.result.state = call.state

\* a facet input of the mechanisms is toggled while page 3 is shown
C26_Witness ==
    /\ call.op = "facetListener"
    /\ call.state.page = 3
    /\ call.facet = "mechanisms"
    /\ call.result.state.filters # call.state.filters

\* a facet input of an inherited name is toggled while page 3 is shown
C26_InheritedWitness ==
    /\ call.op = "facetListener"
    /\ call.state.page = 3
    /\ call.facet = "constructor"
    /\ call.result.thrown = "TypeError"

\* On the page: a step in which the search box, the sort selector or a facet
\* input of a known facet changes while the listeners are registered leaves
\* the view on page 1, so that a page > 1 comes from the query string or a
\* click on a pagination link; a toggle of an unknown facet leaves the view
\* and what is shown as they are.
C26_PageOneAfterControls ==
    [][(pc = "ready" /\ pc' = "ready") =>
          /\ (searchValue' # searchValue \/ sortValue' # sortValue) => state'.page = 1
          /\ \A i \in 1..Len(checked) :
                checked'[i] # checked[i] =>
                    IF FacetInputs[i].facet \in FacetNames
                    THEN state'.page = 1
                    ELSE UNCHANGED <<state, games, grid, url, history,
                                     pagination, summary>>]_vars

\* a facet is toggled while page 2 is shown
C26_ToggleOnLaterPage == pc = "ready" /\ state.page = 2 /\ Len(pagination) > 0
----------------------------------------------------------------------------
(* The forum, the reviews and the user record *)

\* a form field is absent or shorter than n characters
Shorter(value, n) == value = null \/ Len(value) < n

\* a post the forum must refuse: its title is shorter than 10 characters, it
\* has no category or its content is shorter than 50 characters
PostRefused(form) ==
    \/ Shorter(form.title, 10)
    \/ form.category \in {null, str_empty}
    \/ Shorter(form.content, 50)

\* a review the widget must refuse: its rating is none of 1..5 or its text
\* is shorter than 20 characters
ReviewRefused(form) ==
    \/ form.rating \in {null, str_empty}
    \/ Number(form.rating) \notin 1..5
    \/ Shorter(form.review, 20)

\* the step is a submission the claims call rejected
Rejected(f, last) ==
    \/ last.op = "post" /\ (PostRefused(last.form) \/ userData(f) = NoItem)
    \/ last.op = "review" /\ (ReviewRefused(last.form) \/ userData(f) = NoItem)

\* C22: a rejected submission writes nothing: a post with a title shorter
\* than 10 characters, no category, a content shorter than 50 characters or
\* no logged-in user record, and a review with a rating outside 1..5, a text
\* shorter than 20 characters or no logged-in user record, leave the stored
\* posts, the stored reviews and the stored user record unchanged.
C22_RejectedWritesNothing ==
    [][Rejected(forum, forum'.last) =>
          /\ forum'.posts = forum.posts
          /\ forum'.reviews = forum.reviews
          /\ forum'.local = forum.local
          /\ forum'.session = forum.session]_vars

\* a logged-in user has submitted a post whose content alone is too short
C22_Witness ==
    /\ forum.loaded
    /\ forum.last.op = "post"
    /\ userData(forum) # NoItem
    /\ Len(forum.last.form.title) >= 10
    /\ forum.last.form.category = str_logic
    /\ Len(forum.last.form.content) = 49
    /\ forum.sentPosts # <<>>

\* a logged-in user has submitted a review with the rating 6
C22_ReviewWitness ==
    /\ forum.loaded
    /\ forum.last.op = "review"
    /\ userData(forum) # NoItem
    /\ forum.last.form = [rating |-> <<"6">>, review |-> Text(20)]

RECURSIVE Reverse(_)
Reverse(seq) == IF seq = <<>> THEN <<>> ELSE Reverse(Tail(seq)) \o <<Head(seq)>>

\* C23: after any sequence of successful post submissions the stored posts
\* are every submitted post exactly once, newest first, followed by the
\* posts stored before in their order; the same holds for the stored
\* reviews of the game.
C23_NewestFirst ==
    forum.loaded =>
        /\ forum.posts = Reverse(forum.sentPosts) \o forum.opened.posts
        /\ forum.reviews = Reverse(forum.sentReviews) \o forum.opened.reviews

\* two posts have been submitted to a storage that held a post
C23_Witness ==
    /\ forum.loaded
    /\ Len(forum.sentPosts) = 2
    /\ forum.opened.posts # <<>>
    /\ Len(forum.posts) = 3

\* two reviews have been submitted to a storage that held a review
C23_ReviewWitness ==
    /\ forum.loaded
    /\ Len(forum.sentReviews) = 2
    /\ Len(forum.reviews) = 3

\* the stores after a user record read from them has been patched: the
\* store the record was read from holds the patched record, the other store
\* is as it was
PatchedInPlace(before, after, patched) ==
    IF before.local # NoItem
    THEN after.local = patched /\ after.session = before.session
    ELSE after.session = patched /\ after.local = NoItem

\* C24: each successful post submission increases posts by 1 and points by
\* 15 in the stored user record, each successful review submission comments
\* by 1 and points by 10; the patched record is written to the store it was
\* read from, its other fields are unchanged and the other store gets no
\* record.
C24_CountersPatchedInPlace ==
    [][/\ (forum'.last.op = "post" /\ forum'.last.at = forum.now
           /\ ~Rejected(forum, forum'.last)) =>
              PatchedInPlace(forum, forum',
                             [userData(forum) EXCEPT !.posts = @ + 1, !.points = @ + 15])
       /\ (forum'.last.op = "review" /\ forum'.last.at = forum.now
           /\ ~Rejected(forum, forum'.last)) =>
              PatchedInPlace(forum, forum',
                             [userData(forum) EXCEPT !.comments = @ + 1, !.points = @ + 10])
      ]_vars

\* a user logged in for the session only has submitted a post and a review
C24_Witness ==
    /\ forum.loaded
    /\ forum.local = NoItem
    /\ forum.session # NoItem
    /\ forum.session.posts = 1
    /\ forum.session.comments = 1
    /\ forum.session.points = 25

\* C25: after a login or a registration has succeeded, the user record that
\* every other component reads is the record that login or registration has
\* created, whatever logins and registrations came before.
C25_ReadersSeeNewUser ==
    [][(forum'.last.at = forum.now
        /\ \/ forum'.last.op = "login"
           \/ forum'.last.op = "register" /\ forum'.last.confirmed) =>
          userData(forum') = mockUser(forum.now, forum'.last.username)]_vars

\* Ann has logged in for the session only, after Bob has registered: the
\* readers still see the record of Bob
C25_StaleUserWitness ==
    /\ forum.loaded
    /\ forum.last.op = "login"
    /\ forum.session # NoItem
    /\ forum.session.username = str_Ann
    /\ userData(forum).username = str_Bob

\* a login or registration that writes localStorage is what the readers see
C25_LocalWritesAreSeen ==
    [][(forum'.last.at = forum.now
        /\ \/ forum'.last.op = "login" /\ forum'.last.remember
           \/ forum'.last.op = "register" /\ forum'.last.confirmed) =>
          userData(forum') = mockUser(forum.now, forum'.last.username)]_vars
----------------------------------------------------------------------------
(* The call-to-action overlay *)

\* C28: the overlay becomes visible at most once per page load, only when
\* the 120-second timer fires, and never after a dismissal: once the dismiss
\* button or the backdrop has been clicked, or Escape has been pressed while
\* the overlay is visible, the overlay stays hidden for the rest of the page
\* load.
C28_ShownOnceByTimer ==
    [][/\ (cta.hidden # "false" /\ cta'.hidden = "false") =>
              /\ cta.timer = "armed" /\ cta'.timer = "fired"
              /\ cta.elapsed >= 120000
              /\ cta.shown = 0
              /\ ~cta.dismissed
       /\ cta.dismissed => cta'.hidden = "true"
       /\ cta'.dismissed => cta'.hidden = "true"]_vars

\* the overlay was shown by the timer, dismissed with Escape, and time has
\* gone on
C28_Witness ==
    /\ cta.loaded
    /\ cta.shown = 1
    /\ cta.dismissed
    /\ cta.timer = "fired"
    /\ cta.hidden = "true"
    /\ cta.elapsed > 120000

\* the overlay was dismissed before the timer fired, and the delay has passed
C28_EarlyDismissalWitness ==
    /\ cta.loaded
    /\ cta.shown = 0
    /\ cta.dismissed
    /\ cta.timer = "cleared"
    /\ cta.elapsed > 120000
----------------------------------------------------------------------------
(* The tab list *)

\* the positions of the tabs that have aria-selected=true
SelectedTabs(t) == {i \in 1..Len(t.selected) : t.selected[i]}

\* exactly one tab has aria-selected=true and tabindex 0, and every panel is
\* hidden except the one whose id is the target of that tab
OneTabOnePanel(t) ==
    \E index \in 1..Len(t.selected) :
        /\ SelectedTabs(t) = {index}
        /\ {i \in 1..Len(t.tabindex) : t.tabindex[i] = 0} = {index}
        /\ \A p \in 1..Len(t.panels) : t.hidden[p] <=> t.panels[p] # t.targets[index]

\* the position one to the right or to the left of a position, the last and
\* the first position being neighbours
Neighbour(index, key, length) ==
    IF key = "ArrowRight" THEN (IF index = length THEN 1 ELSE index + 1)
    ELSE (IF index = 1 THEN length ELSE index - 1)

\* the step is a press of ArrowRight or ArrowLeft on a tab
ArrowPressed(before, after) ==
    /\ after.events = before.events + 1
    /\ after.last.key \in {"ArrowRight", "ArrowLeft"}

\* C29: after any sequence of tab clicks and ArrowLeft/ArrowRight presses on
\* a tab list exactly one tab has aria-selected=true and tabindex 0, every
\* panel is hidden except the one whose id is that tab's target, and an
\* arrow key moves the selection by one position, wrapping around at both
\* ends.
C29_ArrowsMoveSelection ==
    [][/\ tablist'.events > 0 => OneTabOnePanel(tablist')
       /\ ArrowPressed(tablist, tablist') =>
              \A from \in SelectedTabs(tablist) :
                  SelectedTabs(tablist') =
                      {Neighbour(from, tablist'.last.key, Len(tablist.selected))}]_vars

\* the attributes are as the claim has them after every click and key press
C29_OneTabOnePanel ==
    tablist.events > 0 => OneTabOnePanel(tablist)

\* an arrow key selects the neighbour of the tab that has the focus
C29_ArrowsMoveFromFocus ==
    [][ArrowPressed(tablist, tablist') =>
          /\ tablist.focus # 0
          /\ SelectedTabs(tablist') =
                 {Neighbour(tablist.focus, tablist'.last.key, Len(tablist.selected))}
          /\ tablist'.focus = Neighbour(tablist.focus, tablist'.last.key,
                                        Len(tablist.selected))]_vars

\* the focus is on the first tab, the fourth tab has been selected with a
\* click that has left the focus where it was, and ArrowRight has selected
\* the second tab
C29_FocusApartWitness ==
    /\ tablist.loaded
    /\ Len(tablist.selected) = 4
    /\ tablist.last = [key |-> "ArrowRight", index |-> 1]
    /\ SelectedTabs(tablist) = {2}
    /\ tablist.events = 3

\* ArrowRight on the last tab has selected the first, whose panel is shown
C29_WrapWitness ==
    /\ tablist.loaded
    /\ tablist.last = [key |-> "ArrowRight", index |-> Len(tablist.selected)]
    /\ SelectedTabs(tablist) = {1}
    /\ ~tablist.hidden[1]
====
